---- MODULE Spec2Model ----
(***************************************************************************)
(* Model of the hardware_diagnostic scoring engine (src/src/engine.rs).    *)
(*                                                                         *)
(* The engine computes with IEEE-754 binary64 numbers (Rust f64).  The     *)
(* scores are sums of products such as 8.0 * 0.4, whose results are not    *)
(* exactly representable, so the arithmetic is modelled bit-exactly:       *)
(* round-to-nearest, ties-to-even, 53 significant bits.  Mantissas do not  *)
(* fit the model checker's integers, so they are kept as little-endian     *)
(* sequences of limbs in base 2^10.                                        *)
(***************************************************************************)
EXTENDS Integers, Sequences, FiniteSets, TLC

(***************************************************************************)
(* Natural numbers of arbitrary size: <<>> is 0, limb 1 is the least       *)
(* significant, the last limb is never 0.                                  *)
(***************************************************************************)
Limb == [bits |-> 10, base |-> 1024]
BASE == Limb.base
LIMB_BITS == Limb.bits

RECURSIVE BTrim(_)
BTrim(a) ==
    IF a = <<>> THEN <<>>
    ELSE IF a[Len(a)] = 0 THEN BTrim(SubSeq(a, 1, Len(a) - 1))
    ELSE a

RECURSIVE BFromNat(_)
BFromNat(n) ==
    IF n = 0 THEN <<>> ELSE <<n % BASE>> \o BFromNat(n \div BASE)

RECURSIVE BToNat(_)
BToNat(a) ==
    IF a = <<>> THEN 0 ELSE a[1] + BASE * BToNat(Tail(a))

RECURSIVE BAddC(_, _, _)
BAddC(a, b, carry) ==
    IF a = <<>> /\ b = <<>> THEN (IF carry = 0 THEN <<>> ELSE <<carry>>)
    ELSE LET x == IF a = <<>> THEN 0 ELSE a[1]
             y == IF b = <<>> THEN 0 ELSE b[1]
             s == x + y + carry
         IN  <<s % BASE>> \o BAddC(IF a = <<>> THEN <<>> ELSE Tail(a),
                                   IF b = <<>> THEN <<>> ELSE Tail(b),
                                   s \div BASE)

BAdd(a, b) == BAddC(a, b, 0)

\* a - b for a >= b
RECURSIVE BSubC(_, _, _)
BSubC(a, b, borrow) ==
    IF a = <<>> THEN <<>>
    ELSE LET y == IF b = <<>> THEN 0 ELSE b[1]
             d == a[1] - y - borrow
         IN  <<IF d < 0 THEN d + BASE ELSE d>>
               \o BSubC(Tail(a), IF b = <<>> THEN <<>> ELSE Tail(b),
                        IF d < 0 THEN 1 ELSE 0)

BSub(a, b) == BTrim(BSubC(a, b, 0))

\* a * k for a machine-sized k (k < 2^20)
RECURSIVE BMulSmallC(_, _, _)
BMulSmallC(a, k, carry) ==
    IF a = <<>> THEN BFromNat(carry)
    ELSE LET p == a[1] * k + carry
         IN  <<p % BASE>> \o BMulSmallC(Tail(a), k, p \div BASE)

BMulSmall(a, k) == IF k = 0 THEN <<>> ELSE BMulSmallC(a, k, 0)

RECURSIVE BMul(_, _)
BMul(a, b) ==
    IF a = <<>> \/ b = <<>> THEN <<>>
    ELSE BAdd(BMulSmall(a, b[1]),
              LET r == BMul(a, Tail(b)) IN IF r = <<>> THEN <<>> ELSE <<0>> \o r)

\* -1, 0, 1 as a < b, a = b, a > b
RECURSIVE BCmpEq(_, _, _)
BCmpEq(a, b, i) ==
    IF i = 0 THEN 0
    ELSE IF a[i] < b[i] THEN -1
    ELSE IF a[i] > b[i] THEN 1
    ELSE BCmpEq(a, b, i - 1)

BCmp(a, b) ==
    IF Len(a) < Len(b) THEN -1
    ELSE IF Len(a) > Len(b) THEN 1
    ELSE BCmpEq(a, b, Len(a))

\* quotient and remainder of a by a machine-sized d (0 < d < 2^21)
RECURSIVE BDivSmallR(_, _, _, _)
BDivSmallR(a, d, i, rem) ==
    IF i = 0 THEN [q |-> <<>>, r |-> rem]
    ELSE LET cur  == rem * BASE + a[i]
             rest == BDivSmallR(a, d, i - 1, cur % d)
         IN  [q |-> rest.q \o <<cur \div d>>, r |-> rest.r]

BDivSmall(a, d) ==
    LET res == BDivSmallR(a, d, Len(a), 0)
    IN  [q |-> BTrim(res.q), r |-> res.r]

RECURSIVE Pow2(_)
Pow2(n) == IF n = 0 THEN 1 ELSE 2 * Pow2(n - 1)

RECURSIVE NatBitLen(_)
NatBitLen(n) == IF n = 0 THEN 0 ELSE 1 + NatBitLen(n \div 2)

BBitLen(a) ==
    IF a = <<>> THEN 0 ELSE LIMB_BITS * (Len(a) - 1) + NatBitLen(a[Len(a)])

Zeros(n) == [i \in 1..n |-> 0]

\* a * 2^s
BShl(a, s) ==
    IF a = <<>> THEN <<>>
    ELSE Zeros(s \div LIMB_BITS) \o BMulSmall(a, Pow2(s % LIMB_BITS))

\* floor(a / 2^s)
BShr(a, s) ==
    IF s \div LIMB_BITS >= Len(a) THEN <<>>
    ELSE BDivSmall(SubSeq(a, (s \div LIMB_BITS) + 1, Len(a)),
                   Pow2(s % LIMB_BITS)).q

BIsOdd(a) == a # <<>> /\ a[1] % 2 = 1

\* number of trailing zero bits of a # 0
RECURSIVE NatTz(_)
NatTz(n) == IF n % 2 = 1 THEN 0 ELSE 1 + NatTz(n \div 2)

RECURSIVE BTz(_)
BTz(a) == IF a[1] = 0 THEN LIMB_BITS + BTz(Tail(a)) ELSE NatTz(a[1])

(***************************************************************************)
(* Non-negative finite binary64 values.  A value is m * 2^e with m odd     *)
(* (or m = 0 and e = 0), which is a canonical form: two values are equal   *)
(* as numbers iff they are equal as records.  The engine never produces a  *)
(* negative number, an infinity or a NaN: it only adds, multiplies and     *)
(* divides non-negative quantities of moderate size.                       *)
(***************************************************************************)
F64_MANTISSA_DIGITS == 53
F32_MANTISSA_DIGITS == 24

F64Zero == [m |-> <<>>, e |-> 0]

\* the canonical form of X * 2^e, for X of at most 53 bits
F64Norm(X, e) ==
    IF X = <<>> THEN F64Zero
    ELSE LET tz == BTz(X) IN [m |-> BShr(X, tz), e |-> e + tz]

\* X * 2^e rounded to p significant bits, to nearest, ties to even
FRound(X, e, p) ==
    LET L == BBitLen(X)
    IN  IF L <= p THEN F64Norm(X, e)
        ELSE LET s    == L - p
                 q    == BShr(X, s)
                 rem  == BSub(X, BShl(q, s))
                 c    == BCmp(rem, BShl(<<1>>, s - 1))
                 up   == c = 1 \/ (c = 0 /\ BIsOdd(q))
             IN  F64Norm(IF up THEN BAdd(q, <<1>>) ELSE q, e + s)

F64Round(X, e) == FRound(X, e, F64_MANTISSA_DIGITS)
F32Round(X, e) == FRound(X, e, F32_MANTISSA_DIGITS)

\* `n as f64` for an integer held as limbs, and for a machine-sized one
F64FromBig(a) == F64Round(a, 0)
F64FromNat(n) == F64FromBig(BFromNat(n))
F32FromNat(n) == F32Round(BFromNat(n), 0)

F64Mul(a, b) == F64Round(BMul(a.m, b.m), a.e + b.e)

FAdd(a, b, p) ==
    LET e == IF a.e < b.e THEN a.e ELSE b.e
    IN  FRound(BAdd(BShl(a.m, a.e - e), BShl(b.m, b.e - e)), e, p)

F64Add(a, b) == FAdd(a, b, F64_MANTISSA_DIGITS)
F32Add(a, b) == FAdd(a, b, F32_MANTISSA_DIGITS)

\* a / b for a divisor b # 0 whose odd part is machine-sized (below 2^21;
\* every divisor of the engine is: a disk count, 2^30, 10^9 = 2^9 * 5^9, and
\* the memory and disk totals of the hosts considered): the quotient is taken
\* to at least p + 2 bits and the remainder is folded into a sticky bit, so
\* the single rounding is the correctly rounded quotient.
FDiv(a, b, p) ==
    IF a.m = <<>> THEN F64Zero
    ELSE LET d  == BToNat(b.m)
             k  == p + 2 + NatBitLen(d)
             qr == BDivSmall(BShl(a.m, k), d)
             st == IF qr.r = 0 THEN <<>> ELSE <<1>>
         IN  FRound(BAdd(BShl(qr.q, 1), st), a.e - b.e - k - 1, p)

F64Div(a, b) == FDiv(a, b, F64_MANTISSA_DIGITS)
F32Div(a, b) == FDiv(a, b, F32_MANTISSA_DIGITS)

\* -1, 0, 1 as a < b, a = b, a > b
F64Cmp(a, b) ==
    LET e == IF a.e < b.e THEN a.e ELSE b.e
    IN  BCmp(BShl(a.m, a.e - e), BShl(b.m, b.e - e))

\* a <= b, which the engine never uses
F64Le(a, b) == F64Cmp(a, b) # 1

F64Lt(a, b) == F64Cmp(a, b) = -1

\* a >= b, which the engine never uses
F64Ge(a, b) == F64Cmp(a, b) # -1

F64Gt(a, b) == F64Cmp(a, b) = 1

\* the value of a decimal literal num/den, e.g. 0.4 is F64Lit(4, 10): the
\* compiler rounds the literal to the nearest binary64
F64Lit(num, den) == F64Div(F64FromNat(num), F64FromNat(den))

(***************************************************************************)
(* Values of the engine.                                                   *)
(*   u64 byte counts are limb sequences; f64 and f32 fields are binary     *)
(*   floating point values as above (every f32 is also an f64, so the      *)
(*   comparison of an f32 with a literal is the comparison of the values). *)
(*   Strings that the code searches (disk_type) are sequences of           *)
(*   characters; strings that it only copies are atoms.                    *)
(***************************************************************************)
U64(n) == BFromNat(n)

\* the floating point literals of the engine, each as the binary64 value the
\* compiler rounds it to: m * 2^e with m odd, m in limbs of ten bits, the least
\* significant first.  The whole numbers among them, by their spelling:
Lit ==
    "0.0" :> [m |-> <<>>, e |-> 0] @@
    "1.0" :> [m |-> <<1>>, e |-> 0] @@
    "2.0" :> [m |-> <<1>>, e |-> 1] @@
    "3.0" :> [m |-> <<3>>, e |-> 0] @@
    "4.0" :> [m |-> <<1>>, e |-> 2] @@
    "5.0" :> [m |-> <<5>>, e |-> 0] @@
    "6.0" :> [m |-> <<3>>, e |-> 1] @@
    "7.0" :> [m |-> <<7>>, e |-> 0] @@
    "8.0" :> [m |-> <<1>>, e |-> 3] @@
    "10.0" :> [m |-> <<5>>, e |-> 1] @@
    "16.0" :> [m |-> <<1>>, e |-> 4] @@
    "20.0" :> [m |-> <<5>>, e |-> 2] @@
    "30.0" :> [m |-> <<15>>, e |-> 1] @@
    "50.0" :> [m |-> <<25>>, e |-> 1] @@
    "60.0" :> [m |-> <<15>>, e |-> 2] @@
    "70.0" :> [m |-> <<35>>, e |-> 1] @@
    "75.0" :> [m |-> <<75>>, e |-> 0] @@
    "80.0" :> [m |-> <<5>>, e |-> 4] @@
    "85.0" :> [m |-> <<85>>, e |-> 0] @@
    "90.0" :> [m |-> <<45>>, e |-> 1] @@
    "95.0" :> [m |-> <<95>>, e |-> 0] @@
    "100.0" :> [m |-> <<25>>, e |-> 2]

\* the weights, which are not exact: 0.4 is 0x3FD999999999999A, that is
\* 3602879701896397 * 2^-53
\* 0.3 where the code has 0.2
Lit0_2_heavy == [m |-> <<819, 204, 819, 204, 819, 4>>, e |-> -54]
Lit0_2 == [m |-> <<205, 819, 204, 819, 204, 3>>, e |-> -54]
Lit0_3 == [m |-> <<819, 204, 819, 204, 819, 4>>, e |-> -54]
Lit0_4 == [m |-> <<205, 819, 204, 819, 204, 3>>, e |-> -53]
Lit0_5 == [m |-> <<1>>, e |-> -1]

\* 1_073_741_824.0 and 1_000_000_000.0
\* the decimal unit where the code has the binary one
GIB_decimal == [m |-> <<357, 883, 1>>, e |-> 9]
GIB == [m |-> <<1>>, e |-> 30]
GB == [m |-> <<357, 883, 1>>, e |-> 9]

\* s.contains(pat) on character sequences
Contains(s, pat) ==
    \E i \in 0..(Len(s) - Len(pat)) : SubSeq(s, i + 1, i + Len(pat)) = pat

STR_SSD == <<"S", "S", "D">>
\* the label in capitals
STR_NVME_capitals == <<"N", "V", "M", "E">>
STR_NVMe == <<"N", "V", "M", "e">>
STR_HDD == <<"H", "D", "D">>

\* a clamp whose lower branch is taken below 2.0
clamp_below_two(score) ==
    IF F64Cmp(score, Lit["2.0"]) = -1 THEN Lit["0.0"]
    ELSE IF F64Cmp(score, Lit["10.0"]) = 1 THEN Lit["10.0"]
    ELSE score

\* if score < 0.0 { 0.0 } else if score > 10.0 { 10.0 } else { score }
clamp(score) ==
    IF F64Lt(score, Lit["0.0"]) THEN Lit["0.0"]
    ELSE IF F64Gt(score, Lit["10.0"]) THEN Lit["10.0"]
    ELSE score

\* the scores of the two middle bands of the utilization exchanged
calculate_cpu_score_bands_exchanged(cpu_info) ==
    LET cores_score ==
            IF cpu_info.number_cpus \in 0..1 THEN Lit["2.0"]
            ELSE IF cpu_info.number_cpus = 2 THEN Lit["4.0"]
            ELSE IF cpu_info.number_cpus \in 3..4 THEN Lit["6.0"]
            ELSE IF cpu_info.number_cpus \in 5..8 THEN Lit["8.0"]
            ELSE Lit["10.0"]
        usage_score ==
            IF F64Lt(cpu_info.cpu_usage, Lit["30.0"]) THEN Lit["10.0"]
            ELSE IF F64Lt(cpu_info.cpu_usage, Lit["60.0"]) THEN Lit["4.0"]
            ELSE IF F64Lt(cpu_info.cpu_usage, Lit["85.0"]) THEN Lit["7.0"]
            ELSE Lit["1.0"]
        freq_score ==
            IF cpu_info.frequency < 2000 THEN Lit["3.0"]
            ELSE IF cpu_info.frequency < 3000 THEN Lit["6.0"]
            ELSE IF cpu_info.frequency < 4000 THEN Lit["8.0"]
            ELSE Lit["10.0"]
        score == F64Add(F64Add(F64Mul(cores_score, Lit0_4),
                               F64Mul(usage_score, Lit0_4)),
                        F64Mul(freq_score, Lit0_2))
    IN  clamp(score)

calculate_cpu_score(cpu_info) ==
    LET cores_score ==
            IF cpu_info.number_cpus \in 0..1 THEN Lit["2.0"]
            ELSE IF cpu_info.number_cpus = 2 THEN Lit["4.0"]
            ELSE IF cpu_info.number_cpus \in 3..4 THEN Lit["6.0"]
            ELSE IF cpu_info.number_cpus \in 5..8 THEN Lit["8.0"]
            ELSE Lit["10.0"]
        usage_score ==
            IF F64Lt(cpu_info.cpu_usage, Lit["30.0"]) THEN Lit["10.0"]
            ELSE IF F64Lt(cpu_info.cpu_usage, Lit["60.0"]) THEN Lit["7.0"]
            ELSE IF F64Lt(cpu_info.cpu_usage, Lit["85.0"]) THEN Lit["4.0"]
            ELSE Lit["1.0"]
        freq_score ==
            IF cpu_info.frequency < 2000 THEN Lit["3.0"]
            ELSE IF cpu_info.frequency < 3000 THEN Lit["6.0"]
            ELSE IF cpu_info.frequency < 4000 THEN Lit["8.0"]
            ELSE Lit["10.0"]
        score == F64Add(F64Add(F64Mul(cores_score, Lit0_4),
                               F64Mul(usage_score, Lit0_4)),
                        F64Mul(freq_score, Lit0_2))
    IN  clamp(score)

calculate_ram_score(ram_info) ==
    LET ram_usage_score ==
            IF F64Lt(ram_info.ram_usage_percent, Lit["60.0"]) THEN Lit["10.0"]
            ELSE IF F64Lt(ram_info.ram_usage_percent, Lit["75.0"]) THEN Lit["7.0"]
            ELSE IF F64Lt(ram_info.ram_usage_percent, Lit["90.0"]) THEN Lit["4.0"]
            ELSE Lit["1.0"]
        swap_score ==
            IF ram_info.total_swap = U64(0) THEN Lit["8.0"]
            ELSE IF F64Lt(ram_info.swap_usage_percent, Lit["10.0"]) THEN Lit["10.0"]
            ELSE IF F64Lt(ram_info.swap_usage_percent, Lit["30.0"]) THEN Lit["7.0"]
            ELSE IF F64Lt(ram_info.swap_usage_percent, Lit["50.0"]) THEN Lit["4.0"]
            ELSE Lit["1.0"]
        capacity_score(total_ram_gb) ==
            IF F64Lt(total_ram_gb, Lit["4.0"]) THEN Lit["3.0"]
            ELSE IF F64Lt(total_ram_gb, Lit["8.0"]) THEN Lit["6.0"]
            ELSE IF F64Lt(total_ram_gb, Lit["16.0"]) THEN Lit["8.0"]
            ELSE Lit["10.0"]
        score == F64Add(F64Add(F64Mul(ram_usage_score, Lit0_5),
                               F64Mul(swap_score, Lit0_3)),
                        F64Mul(capacity_score(F64Div(F64FromBig(ram_info.total_ram),
                                                     GIB)),
                               Lit0_2))
    IN  clamp(score)

\* the body of the loop of calculate_disk_score: the clamped score of a disk
clamped_score(disk) ==
    LET usage_score ==
            IF F64Lt(disk.usage_percent, Lit["70.0"]) THEN Lit["10.0"]
            ELSE IF F64Lt(disk.usage_percent, Lit["85.0"]) THEN Lit["7.0"]
            ELSE IF F64Lt(disk.usage_percent, Lit["95.0"]) THEN Lit["4.0"]
            ELSE Lit["1.0"]
        type_score ==
            IF Contains(disk.disk_type, STR_SSD) \/ Contains(disk.disk_type, STR_NVMe)
            THEN Lit["10.0"]
            ELSE IF Contains(disk.disk_type, STR_HDD) THEN Lit["6.0"]
            ELSE Lit["8.0"]
        free_space_score(free_gb) ==
            IF F64Gt(free_gb, Lit["100.0"]) THEN Lit["10.0"]
            ELSE IF F64Gt(free_gb, Lit["50.0"]) THEN Lit["8.0"]
            ELSE IF F64Gt(free_gb, Lit["20.0"]) THEN Lit["6.0"]
            ELSE IF F64Gt(free_gb, Lit["10.0"]) THEN Lit["4.0"]
            ELSE Lit["1.0"]
        disk_score ==
            F64Add(F64Add(F64Mul(usage_score, Lit0_5),
                          F64Mul(type_score, Lit0_3)),
                   F64Mul(free_space_score(F64Div(F64FromBig(disk.available_space),
                                                  GB)),
                          Lit0_2))
    IN  clamp(disk_score)

\* the loop of calculate_disk_score from disk i on, with its two accumulators,
\* and the division that follows it
RECURSIVE disk_loop(_, _, _, _)
disk_loop(disks, i, total_score, count) ==
    IF i > Len(disks)
    THEN IF count > 0
         THEN F64Div(total_score, F64FromNat(count))
         ELSE Lit["5.0"]
    ELSE disk_loop(disks, i + 1,
                   F64Add(total_score, clamped_score(disks[i])), count + 1)

\* no disks scored as the sum of no scores: 0.0
calculate_disk_score_zero(disks) ==
    IF disks = <<>> THEN Lit["0.0"]
    ELSE disk_loop(disks, 1, Lit["0.0"], 0)

\* the score of the first disk of the list in place of the mean
calculate_disk_score_first_disk(disks) ==
    IF disks = <<>> THEN Lit["5.0"] ELSE clamped_score(disks[1])

calculate_disk_score(disks) ==
    IF disks = <<>> THEN Lit["5.0"]
    ELSE disk_loop(disks, 1, Lit["0.0"], 0)

\* the bands closed at their upper end: score <= 3.0 and so on
determine_category_inclusive(score) ==
    IF F64Le(score, Lit["3.0"]) THEN "Descarte"
    ELSE IF F64Le(score, Lit["5.0"]) THEN "Manutencao"
    ELSE IF F64Le(score, Lit["7.0"]) THEN "Precaucao"
    ELSE "BomEstado"

determine_category(score) ==
    IF F64Lt(score, Lit["3.0"]) THEN "Descarte"
    ELSE IF F64Lt(score, Lit["5.0"]) THEN "Manutencao"
    ELSE IF F64Lt(score, Lit["7.0"]) THEN "Precaucao"
    ELSE "BomEstado"

\* the weights of a triple that sum to more than 1
overall_of_overweight(cpu_score, ram_score, disk_score) ==
    F64Add(F64Add(F64Mul(cpu_score, Lit0_4), F64Mul(ram_score, Lit0_4)),
           F64Mul(disk_score, Lit0_3))

\* the weights of the CPU and of the RAM exchanged
overall_of_swapped(cpu_score, ram_score, disk_score) ==
    F64Add(F64Add(F64Mul(cpu_score, Lit0_3), F64Mul(ram_score, Lit0_4)),
           F64Mul(disk_score, Lit0_3))

\* let overall_score = cpu_score * 0.4 + ram_score * 0.3 + disk_score * 0.3;
overall_of(cpu_score, ram_score, disk_score) ==
    F64Add(F64Add(F64Mul(cpu_score, Lit0_4), F64Mul(ram_score, Lit0_3)),
           F64Mul(disk_score, Lit0_3))

(***************************************************************************)
(* Recommendations.  A recommendation is the format string pushed by the   *)
(* code (written here without the leading pictograph and without           *)
(* diacritics) together with the arguments it is formatted with: the disk  *)
(* name and, for the capacity warning, the usage percentage.               *)
(***************************************************************************)
REC_DESCARTE == "CONSIDERE DESCARTE: A maquina esta em estado critico"
REC_SUGESTAO == "Sugestao: Upgrade completo ou substituicao do equipamento"
REC_MANUTENCAO == "MANUTENCAO URGENTE: A maquina requer intervencao imediata"
REC_PRECAUCAO == "USO COM PRECAUCAO: Monitore o desempenho regularmente"
REC_BOM_ESTADO == "BOM ESTADO: A maquina esta adequada para uso normal"
REC_CPU_USO == "CPU: Uso muito alto. Verifique processos desnecessarios"
REC_CPU_NUCLEO == "CPU: Apenas 1 nucleo detectado. Limitacao para multitarefa"
REC_RAM_USO == "RAM: Uso acima de 85%. Considere adicionar mais memoria"
REC_RAM_INSUFICIENTE == "RAM: Memoria insuficiente para sistemas modernos"
REC_SWAP == "SWAP: Uso excessivo de memoria virtual. Otimize a RAM"
REC_DISCO_CHEIO == "DISCO {}: Capacidade quase esgotada ({:.1}%)"
REC_DISCO_HDD == "DISCO {}: HDD pode estar limitando performance"
REC_DISCO_LIVRE == "DISCO {}: Menos de 10GB livres"
ACAO_SUBSTITUIR == "Acao recomendada: Substituir equipamento"
ACAO_MANUTENCAO == "Acao recomendada: Manutencao tecnica urgente"
ACAO_MONITORAMENTO == "Acao recomendada: Monitoramento continuo"
ACAO_PREVENTIVA == "Acao recomendada: Manutencao preventiva regular"

Rec(fmt) == [fmt |-> fmt, disk |-> "", pct |-> F64Zero]
RecDisk(fmt, name) == [fmt |-> fmt, disk |-> name, pct |-> F64Zero]
RecDiskPct(fmt, name, pct) == [fmt |-> fmt, disk |-> name, pct |-> pct]

When(cond, rec) == IF cond THEN <<rec>> ELSE <<>>

\* 4 * 1000 * 1000 * 1000: the decimal 4 GB in place of 4 GiB
FOUR_GB_BYTES_decimal == BMulSmall(BMulSmall(BMulSmall(U64(4), 1000), 1000), 1000)

\* 4 * 1024 * 1024 * 1024 as u64
FOUR_GIB_BYTES == BMulSmall(BMulSmall(BMulSmall(U64(4), 1024), 1024), 1024)

\* the HDD warning pushed whatever the overall score
disk_recommendations_any_score(disk, overall_score) ==
    When(F64Gt(disk.usage_percent, Lit["90.0"]),
         RecDiskPct(REC_DISCO_CHEIO, disk.name, disk.usage_percent))
    \o When(Contains(disk.disk_type, STR_HDD), RecDisk(REC_DISCO_HDD, disk.name))
    \o When(F64Lt(F64Div(F64FromBig(disk.available_space), GB), Lit["10.0"]),
            RecDisk(REC_DISCO_LIVRE, disk.name))

\* the pushes of one iteration of the loop over the disks
disk_recommendations(disk, overall_score) ==
    When(F64Gt(disk.usage_percent, Lit["90.0"]),
         RecDiskPct(REC_DISCO_CHEIO, disk.name, disk.usage_percent))
    \o When(Contains(disk.disk_type, STR_HDD) /\ F64Lt(overall_score, Lit["7.0"]),
            RecDisk(REC_DISCO_HDD, disk.name))
    \o When(F64Lt(F64Div(F64FromBig(disk.available_space), GB), Lit["10.0"]),
            RecDisk(REC_DISCO_LIVRE, disk.name))

\* the warnings of the last disk first
RECURSIVE disks_recommendations_reversed(_, _, _)
disks_recommendations_reversed(disks, i, overall_score) ==
    IF i > Len(disks) THEN <<>>
    ELSE disks_recommendations_reversed(disks, i + 1, overall_score)
         \o disk_recommendations(disks[i], overall_score)

RECURSIVE disks_recommendations(_, _, _)
disks_recommendations(disks, i, overall_score) ==
    IF i > Len(disks) THEN <<>>
    ELSE disk_recommendations(disks[i], overall_score)
         \o disks_recommendations(disks, i + 1, overall_score)

\* the four tests as independent ifs instead of an else-if chain
general_recommendations_cascade(overall_score) ==
    When(F64Lt(overall_score, Lit["3.0"]), Rec(REC_DESCARTE))
    \o When(F64Lt(overall_score, Lit["3.0"]), Rec(REC_SUGESTAO))
    \o When(F64Lt(overall_score, Lit["5.0"]), Rec(REC_MANUTENCAO))
    \o When(F64Lt(overall_score, Lit["7.0"]), Rec(REC_PRECAUCAO))
    \o When(~F64Lt(overall_score, Lit["7.0"]), Rec(REC_BOM_ESTADO))

general_recommendations(overall_score) ==
    IF F64Lt(overall_score, Lit["3.0"]) THEN <<Rec(REC_DESCARTE), Rec(REC_SUGESTAO)>>
    ELSE IF F64Lt(overall_score, Lit["5.0"]) THEN <<Rec(REC_MANUTENCAO)>>
    ELSE IF F64Lt(overall_score, Lit["7.0"]) THEN <<Rec(REC_PRECAUCAO)>>
    ELSE <<Rec(REC_BOM_ESTADO)>>

\* the arms of the two middle categories exchanged
final_recommendation_exchanged(category) ==
    CASE category = "Descarte" -> <<Rec(ACAO_SUBSTITUIR)>>
      [] category = "Manutencao" -> <<Rec(ACAO_MONITORAMENTO)>>
      [] category = "Precaucao" -> <<Rec(ACAO_MANUTENCAO)>>
      [] category = "BomEstado" -> <<Rec(ACAO_PREVENTIVA)>>

final_recommendation(category) ==
    CASE category = "Descarte" -> <<Rec(ACAO_SUBSTITUIR)>>
      [] category = "Manutencao" -> <<Rec(ACAO_MANUTENCAO)>>
      [] category = "Precaucao" -> <<Rec(ACAO_MONITORAMENTO)>>
      [] category = "BomEstado" -> <<Rec(ACAO_PREVENTIVA)>>

generate_recommendations(cpu_info, ram_info, disks, overall_score) ==
    general_recommendations(overall_score)
    \o When(F64Gt(cpu_info.cpu_usage, Lit["80.0"]), Rec(REC_CPU_USO))
    \o When(cpu_info.number_cpus < 2, Rec(REC_CPU_NUCLEO))
    \o When(F64Gt(ram_info.ram_usage_percent, Lit["85.0"]), Rec(REC_RAM_USO))
    \o When(BCmp(ram_info.total_ram, FOUR_GIB_BYTES) = -1, Rec(REC_RAM_INSUFICIENTE))
    \o When(F64Gt(ram_info.swap_usage_percent, Lit["50.0"]), Rec(REC_SWAP))
    \o disks_recommendations(disks, 1, overall_score)
    \o final_recommendation(determine_category(overall_score))

(***************************************************************************)
(* The collectors.  They read the host through the sysinfo crate; the host *)
(* is a record                                                             *)
(*   cpus  : the per-core records [usage, frequency, brand] of sys.cpus()  *)
(*   physical_core_count                                                   *)
(*   mem   : total_memory, used_memory, free_memory, total_swap, used_swap *)
(*   disks : the records [name, mount_point, total_space, available_space, *)
(*           file_system, kind] of Disks::new_with_refreshed_list()        *)
(***************************************************************************)
RECURSIVE sum_usage(_, _, _)
sum_usage(cpus, i, acc) ==
    IF i > Len(cpus) THEN acc
    ELSE sum_usage(cpus, i + 1, F32Add(acc, cpus[i].usage))

cpu_info(host) ==
    LET cpus        == host.cpus
        total_usage == sum_usage(cpus, 1, F64Zero)
        avg_usage   == IF cpus # <<>>
                       THEN F32Div(total_usage, F32FromNat(Len(cpus)))
                       ELSE F64Zero
        cpu_name    == IF cpus # <<>> THEN cpus[1].brand ELSE "Desconhecido"
        cpu_frequency == IF cpus # <<>> THEN cpus[1].frequency ELSE 0
    IN  [number_cpus |-> Len(cpus), cpu_usage |-> avg_usage,
         frequency |-> cpu_frequency, name |-> cpu_name,
         physical_cores |-> host.physical_core_count]

\* the fallback of an absent memory or swap taken as fully used
ram_info_full_when_absent(host) ==
    LET total_ram  == host.mem.total_memory
        total_swap == host.mem.total_swap
    IN  [total_ram |-> total_ram, used_ram |-> host.mem.used_memory,
         free_ram |-> host.mem.free_memory,
         total_swap |-> total_swap, used_swap |-> host.mem.used_swap,
         ram_usage_percent |->
            IF BCmp(total_ram, U64(0)) = 1
            THEN F64Mul(F64Div(F64FromBig(host.mem.used_memory), F64FromBig(total_ram)),
                        Lit["100.0"])
            ELSE Lit["100.0"],
         swap_usage_percent |->
            IF BCmp(total_swap, U64(0)) = 1
            THEN F64Mul(F64Div(F64FromBig(host.mem.used_swap), F64FromBig(total_swap)),
                        Lit["100.0"])
            ELSE Lit["100.0"]]

ram_info(host) ==
    LET total_ram  == host.mem.total_memory
        used_ram   == host.mem.used_memory
        free_ram   == host.mem.free_memory
        total_swap == host.mem.total_swap
        used_swap  == host.mem.used_swap
        ram_usage_percent ==
            IF BCmp(total_ram, U64(0)) = 1
            THEN F64Mul(F64Div(F64FromBig(used_ram), F64FromBig(total_ram)),
                        Lit["100.0"])
            ELSE F64Zero
        swap_usage_percent ==
            IF BCmp(total_swap, U64(0)) = 1
            THEN F64Mul(F64Div(F64FromBig(used_swap), F64FromBig(total_swap)),
                        Lit["100.0"])
            ELSE F64Zero
    IN  [total_ram |-> total_ram, used_ram |-> used_ram, free_ram |-> free_ram,
         total_swap |-> total_swap, used_swap |-> used_swap,
         ram_usage_percent |-> ram_usage_percent,
         swap_usage_percent |-> swap_usage_percent]

\* format!("{:?}", disk.kind()): the derived Debug of sysinfo's DiskKind
DiskKindDebug(kind) ==
    CASE kind = "HDD" -> STR_HDD
      [] kind = "SSD" -> STR_SSD
      [] OTHER -> <<"U", "n", "k", "n", "o", "w", "n", "(", "-", "1", ")">>

\* one iteration of the loop of disk_info; the host reports
\* available_space <= total_space
disk_entry(disk) ==
    LET total_space     == disk.total_space
        available_space == disk.available_space
        used_space      == BSub(total_space, available_space)
        usage_percent   ==
            IF BCmp(total_space, U64(0)) = 1
            THEN F64Mul(F64Div(F64FromBig(used_space), F64FromBig(total_space)),
                        Lit["100.0"])
            ELSE F64Zero
    IN  [name |-> disk.name, mount_point |-> disk.mount_point,
         total_space |-> total_space, available_space |-> available_space,
         used_space |-> used_space, usage_percent |-> usage_percent,
         file_system |-> disk.file_system,
         disk_type |-> DiskKindDebug(disk.kind)]

disk_info(host) == [i \in 1..Len(host.disks) |-> disk_entry(host.disks[i])]

(***************************************************************************)
(* Hosts.  Byte counts are built from units so that they stay exact:       *)
(* MiB(n) is n * 2^20 bytes and GB(n) is n * 10^9 bytes.                   *)
(***************************************************************************)
MiB(n) == BMulSmall(BFromNat(n), 1048576)
GBytes(n) == BMulSmall(BFromNat(1000000000), n)
Half(h) == F64Div(F64FromNat(h), Lit["2.0"])

Core(usage, frequency) == [usage |-> usage, frequency |-> frequency, brand |-> "cpu"]
Cores(n, usage, frequency) == [i \in 1..n |-> Core(usage, frequency)]

Mem(total, used, total_swap, used_swap) ==
    [total_memory |-> total, used_memory |-> used, free_memory |-> BSub(total, used),
     total_swap |-> total_swap, used_swap |-> used_swap]

HostDisk(name, total, available, kind) ==
    [name |-> name, mount_point |-> name, total_space |-> total,
     available_space |-> available, file_system |-> "NTFS", kind |-> kind]

MaxDisks == 2

HostCpus ==
    {<<>>, Cores(1, Half(190), 1800), Cores(2, Half(163), 2000),
     Cores(4, Half(100), 3000),
     Cores(4, Half(170), 3999), Cores(8, Half(40), 3500),
     <<Core(Half(10), 4200), Core(Half(61), 4200), Core(Half(199), 4200)>>,
     Cores(12, Half(59), 4000)}

HostMems ==
    {Mem(U64(0), U64(0), U64(0), U64(0)),
     Mem(MiB(2048), MiB(1945), MiB(1024), MiB(900)),
     Mem(MiB(4096), MiB(3072), MiB(4096), MiB(1024)),
     Mem(MiB(8192), MiB(6963), U64(0), U64(0)),
     Mem(MiB(16384), MiB(15000), MiB(8192), MiB(4096)),
     Mem(MiB(32768), MiB(8192), MiB(8192), U64(0))}

HostDiskChoices ==
    {HostDisk("C:", MiB(476940), GBytes(5), "HDD"),
     HostDisk("C:", MiB(476940), GBytes(200), "SSD"),
     HostDisk("D:", MiB(953870), GBytes(60), "HDD"),
     HostDisk("D:", MiB(122070), GBytes(15), "Unknown"),
     HostDisk("E:", U64(0), U64(0), "Unknown")}

RECURSIVE SeqsUpTo(_, _)
SeqsUpTo(S, n) ==
    IF n = 0 THEN {<<>>}
    ELSE LET shorter == SeqsUpTo(S, n - 1)
         IN  shorter \cup {Append(q, x) : q \in {r \in shorter : Len(r) = n - 1}, x \in S}

Hosts ==
    {[cpus |-> c, physical_core_count |-> <<(Len(c) + 1) \div 2>>, mem |-> m, disks |-> d] :
        c \in HostCpus, m \in HostMems, d \in SeqsUpTo(HostDiskChoices, MaxDisks)}

(***************************************************************************)
(* The program.  calculate_performance_score may be invoked more than once *)
(* in a process, so its frame is kept per invocation c.                    *)
(*   host            what the sysinfo crate reports                        *)
(*   pc[c]           the statement invocation c executes next              *)
(*   cpuInfo[c], ramInfo[c], disksInfo[c]                                  *)
(*                   the locals cpu_info, ram_info and disks_info          *)
(*   cpu_score[c], ram_score[c], disk_score[c], overall_score[c],          *)
(*   category[c], recommendations[c]                                       *)
(*                   the locals of these names                             *)
(*   returned[c]     the PerformanceScore returned, <<>> before the return *)
(* and the command-line program around it:                                 *)
(*   program         the binary run: "bin/main.rs" or "main.rs"            *)
(*   args            the arguments after the program name                  *)
(*   main_pc         the statement main executes next, "none" when         *)
(*                   calculate_performance_score is run on its own         *)
(*   summary         main.rs's locals cpu, ram and disks                   *)
(*   timestamp       the local timestamp, <<>> before its assignment       *)
(*   report          the String under construction in generate_report and  *)
(*                   generate_complete_report                              *)
(*   console         what was printed, to stdout and to stderr             *)
(*   writes          the calls of std::fs::write made, with their results  *)
(*   now             the seconds since the Unix epoch                      *)
(***************************************************************************)
VARIABLES host, pc, cpuInfo, ramInfo, disksInfo, cpu_score, ram_score,
          disk_score, overall_score, category, recommendations, returned,
          program, args, main_pc, summary, timestamp, report, console,
          writes, now

mainVars == <<program, args, main_pc, summary, timestamp, report, console,
              writes, now>>

vars == <<host, pc, cpuInfo, ramInfo, disksInfo, cpu_score, ram_score,
          disk_score, overall_score, category, recommendations, returned,
          mainVars>>

\* calculate_performance_score called from a program that is not main
NoMain ==
    /\ program = "lib.rs"
    /\ args = <<>>
    /\ main_pc = "none"
    /\ summary = <<>>
    /\ timestamp = <<>>
    /\ report = <<>>
    /\ console = <<>>
    /\ writes = <<>>
    /\ now = 0

Calls == {1, 2}

NoCpuInfo ==
    [number_cpus |-> 0, cpu_usage |-> F64Zero, frequency |-> 0, name |-> "",
     physical_cores |-> <<>>]

NoRamInfo ==
    [total_ram |-> U64(0), used_ram |-> U64(0), free_ram |-> U64(0),
     total_swap |-> U64(0), used_swap |-> U64(0),
     ram_usage_percent |-> F64Zero, swap_usage_percent |-> F64Zero]

\* the frames of the invocations, all at statement at, with the locals
\* cpu_info, ram_info, disks_info and overall_score as given and the other
\* locals not yet assigned
Locals(at, ci, ri, di, overall) ==
    /\ pc = [c \in Calls |-> at]
    /\ cpuInfo = [c \in Calls |-> ci]
    /\ ramInfo = [c \in Calls |-> ri]
    /\ disksInfo = [c \in Calls |-> di]
    /\ cpu_score = [c \in Calls |-> F64Zero]
    /\ ram_score = [c \in Calls |-> F64Zero]
    /\ disk_score = [c \in Calls |-> F64Zero]
    /\ overall_score = [c \in Calls |-> overall]
    /\ category = [c \in Calls |-> "none"]
    /\ recommendations = [c \in Calls |-> <<>>]
    /\ returned = [c \in Calls |-> <<>>]

Frames(at, ci, ri, di, overall) == Locals(at, ci, ri, di, overall) /\ NoMain

\* the entry of calculate_performance_score
Init ==
    /\ host \in Hosts
    /\ Frames("cpu_info", NoCpuInfo, NoRamInfo, <<>>, F64Zero)

Goto(c, label) == pc' = [pc EXCEPT ![c] = label] /\ UNCHANGED mainVars

\* let cpu_info = cpu_info();
CpuInfoStep(c) ==
    /\ pc[c] = "cpu_info"
    /\ cpuInfo' = [cpuInfo EXCEPT ![c] = cpu_info(host)]
    /\ Goto(c, "ram_info")
    /\ UNCHANGED <<host, ramInfo, disksInfo, cpu_score, ram_score, disk_score,
                   overall_score, category, recommendations, returned>>

\* let ram_info = ram_info();
RamInfoStep(c) ==
    /\ pc[c] = "ram_info"
    /\ ramInfo' = [ramInfo EXCEPT ![c] = ram_info(host)]
    /\ Goto(c, "disk_info")
    /\ UNCHANGED <<host, cpuInfo, disksInfo, cpu_score, ram_score, disk_score,
                   overall_score, category, recommendations, returned>>

\* let disks_info = disk_info();
DiskInfoStep(c) ==
    /\ pc[c] = "disk_info"
    /\ disksInfo' = [disksInfo EXCEPT ![c] = disk_info(host)]
    /\ Goto(c, "cpu_score")
    /\ UNCHANGED <<host, cpuInfo, ramInfo, cpu_score, ram_score, disk_score,
                   overall_score, category, recommendations, returned>>

\* let cpu_score = calculate_cpu_score(&cpu_info);
CpuScoreStep(c) ==
    /\ pc[c] = "cpu_score"
    /\ cpu_score' = [cpu_score EXCEPT ![c] = calculate_cpu_score(cpuInfo[c])]
    /\ Goto(c, "ram_score")
    /\ UNCHANGED <<host, cpuInfo, ramInfo, disksInfo, ram_score, disk_score,
                   overall_score, category, recommendations, returned>>

\* let ram_score = calculate_ram_score(&ram_info);
RamScoreStep(c) ==
    /\ pc[c] = "ram_score"
    /\ ram_score' = [ram_score EXCEPT ![c] = calculate_ram_score(ramInfo[c])]
    /\ Goto(c, "disk_score")
    /\ UNCHANGED <<host, cpuInfo, ramInfo, disksInfo, cpu_score, disk_score,
                   overall_score, category, recommendations, returned>>

\* let disk_score = calculate_disk_score(&disks_info);
DiskScoreStep(c) ==
    /\ pc[c] = "disk_score"
    /\ disk_score' = [disk_score EXCEPT ![c] = calculate_disk_score(disksInfo[c])]
    /\ Goto(c, "overall_score")
    /\ UNCHANGED <<host, cpuInfo, ramInfo, disksInfo, cpu_score, ram_score,
                   overall_score, category, recommendations, returned>>

\* let overall_score = cpu_score * 0.4 + ram_score * 0.3 + disk_score * 0.3;
OverallScoreStep(c) ==
    /\ pc[c] = "overall_score"
    /\ overall_score' = [overall_score EXCEPT
                            ![c] = overall_of(cpu_score[c], ram_score[c], disk_score[c])]
    /\ Goto(c, "category")
    /\ UNCHANGED <<host, cpuInfo, ramInfo, disksInfo, cpu_score, ram_score,
                   disk_score, category, recommendations, returned>>

\* let category = determine_category(overall_score);
CategoryStep(c) ==
    /\ pc[c] = "category"
    /\ category' = [category EXCEPT ![c] = determine_category(overall_score[c])]
    /\ Goto(c, "recommendations")
    /\ UNCHANGED <<host, cpuInfo, ramInfo, disksInfo, cpu_score, ram_score,
                   disk_score, overall_score, recommendations, returned>>

\* the list kept in a place that the invocations share and that is not
\* cleared between them: invocation c appends to what the other one left
RecommendationsStepShared(c) ==
    /\ pc[c] = "recommendations"
    /\ recommendations' =
          [recommendations EXCEPT
              ![c] = recommendations[3 - c]
                     \o generate_recommendations(cpuInfo[c], ramInfo[c], disksInfo[c],
                                                 overall_score[c])]
    /\ Goto(c, "return")
    /\ UNCHANGED <<host, cpuInfo, ramInfo, disksInfo, cpu_score, ram_score,
                   disk_score, overall_score, category, returned>>

\* let recommendations = generate_recommendations(...);
RecommendationsStep(c) ==
    /\ pc[c] = "recommendations"
    /\ recommendations' =
          [recommendations EXCEPT
              ![c] = generate_recommendations(cpuInfo[c], ramInfo[c], disksInfo[c],
                                              overall_score[c])]
    /\ Goto(c, "return")
    /\ UNCHANGED <<host, cpuInfo, ramInfo, disksInfo, cpu_score, ram_score,
                   disk_score, overall_score, category, returned>>

\* PerformanceScore { overall_score, cpu_score, ram_score, disk_score, ... }
ReturnStep(c) ==
    /\ pc[c] = "return"
    /\ returned' = [returned EXCEPT
                      ![c] = <<[overall_score |-> overall_score[c],
                                cpu_score |-> cpu_score[c],
                                ram_score |-> ram_score[c],
                                disk_score |-> disk_score[c],
                                category |-> category[c],
                                recommendations |-> recommendations[c]]>>]
    /\ Goto(c, "done")
    /\ UNCHANGED <<host, cpuInfo, ramInfo, disksInfo, cpu_score, ram_score,
                   disk_score, overall_score, category, recommendations>>


\* the statements of invocation c
Steps(c) ==
    \/ CpuInfoStep(c)
    \/ RamInfoStep(c)
    \/ DiskInfoStep(c)
    \/ CpuScoreStep(c)
    \/ RamScoreStep(c)
    \/ DiskScoreStep(c)
    \/ OverallScoreStep(c)
    \/ CategoryStep(c)
    \/ RecommendationsStep(c)
    \/ ReturnStep(c)

\* one invocation of calculate_performance_score on the host
Next == Steps(1)

Spec == Init /\ [][Next]_vars

(***************************************************************************)
(* Two invocations on the same host, their statements interleaved.         *)
(***************************************************************************)
TwinHosts ==
    {[cpus |-> c, physical_core_count |-> <<(Len(c) + 1) \div 2>>, mem |-> m, disks |-> d] :
        c \in {<<>>, Cores(1, Half(190), 1800),
               <<Core(Half(10), 4200), Core(Half(61), 4200), Core(Half(199), 4200)>>},
        m \in {Mem(MiB(2048), MiB(1945), MiB(1024), MiB(900)),
               Mem(MiB(8192), MiB(6963), U64(0), U64(0)),
               Mem(MiB(16384), MiB(15000), MiB(8192), MiB(4096))},
        d \in SeqsUpTo({HostDisk("C:", MiB(476940), GBytes(5), "HDD"),
                        HostDisk("D:", MiB(122070), GBytes(15), "Unknown")}, MaxDisks)}

InitTwin ==
    /\ host \in TwinHosts
    /\ Frames("cpu_info", NoCpuInfo, NoRamInfo, <<>>, F64Zero)

NextTwin == \E c \in Calls : Steps(c)

SpecTwin == InitTwin /\ [][NextTwin]_vars

(***************************************************************************)
(* The functions of the engine taken one at a time: the invocation stands  *)
(* at the call of the function with the arguments drawn from a grid that   *)
(* holds every threshold of the function, a value next to it on each side, *)
(* and the values of the worked examples.  The structs have public fields  *)
(* and the functions read only some of them; the others are left at zero.  *)
(***************************************************************************)
NoHost ==
    [cpus |-> <<>>, physical_core_count |-> <<>>,
     mem |-> Mem(U64(0), U64(0), U64(0), U64(0)), disks |-> <<>>]

\* n / 100 as an f64 and as an f32
Pct(n) == F64Div(F64FromNat(n), Lit["100.0"])
Pct32(n) == F32Div(F32FromNat(n), Lit["100.0"])

\* the f64 next below and next above n, for n in [2^k, 2^(k+1)) and s = 52 - k
JustBelow(n, s) == F64Norm(BSub(BShl(BFromNat(n), s), <<1>>), 0 - s)
JustAbove(n, s) == F64Norm(BAdd(BShl(BFromNat(n), s), <<1>>), 0 - s)

CpuInfoOf(number_cpus, cpu_usage, frequency) ==
    [number_cpus |-> number_cpus, cpu_usage |-> cpu_usage, frequency |-> frequency,
     name |-> "cpu", physical_cores |-> <<>>]

RamInfoOf(total_ram, ram_usage_percent, total_swap, swap_usage_percent) ==
    [total_ram |-> total_ram, used_ram |-> U64(0), free_ram |-> U64(0),
     total_swap |-> total_swap, used_swap |-> U64(0),
     ram_usage_percent |-> ram_usage_percent,
     swap_usage_percent |-> swap_usage_percent]

DiskInfoOf(name, usage_percent, disk_type, available_space) ==
    [name |-> name, mount_point |-> name, total_space |-> U64(0),
     available_space |-> available_space, used_space |-> U64(0),
     usage_percent |-> usage_percent, file_system |-> "NTFS",
     disk_type |-> disk_type]

\* calculate_cpu_score
CpuInfos ==
    {CpuInfoOf(n, Pct32(u), f) :
        n \in {0, 1, 2, 3, 4, 5, 8, 9, 16},
        u \in {0, 2000, 2999, 3000, 5999, 6000, 8499, 8500, 10000},
        f \in {0, 1999, 2000, 2999, 3000, 3500, 3999, 4000, 5000}}

InitCpu ==
    /\ host = NoHost
    /\ \E ci \in CpuInfos : Frames("cpu_score", ci, NoRamInfo, <<>>, F64Zero)

NextCpu == CpuScoreStep(1)

SpecCpu == InitCpu /\ [][NextCpu]_vars

\* calculate_ram_score
RamTotals ==
    {U64(0), MiB(2048), BSub(MiB(4096), U64(1)), MiB(4096),
     BSub(MiB(8192), U64(1)), MiB(8192), BSub(MiB(16384), U64(1)), MiB(16384),
     MiB(32768)}

RamSwaps ==
    {<<U64(0), Pct(0)>>, <<U64(0), Pct(7500)>>}
    \cup {<<MiB(2048), Pct(n)>> : n \in {0, 999, 1000, 2999, 3000, 4999, 5000, 10000}}

RamInfos ==
    {RamInfoOf(t, Pct(u), s[1], s[2]) :
        t \in RamTotals,
        u \in {0, 5999, 6000, 7499, 7500, 8500, 8999, 9000, 10000},
        s \in RamSwaps}

InitRam ==
    /\ host = NoHost
    /\ \E ri \in RamInfos : Frames("ram_score", NoCpuInfo, ri, <<>>, F64Zero)

NextRam == RamScoreStep(1)

SpecRam == InitRam /\ [][NextRam]_vars

\* calculate_disk_score: every single disk of the grid, and the lists of up to
\* MaxDisks disks of a smaller set
DiskLabels ==
    {<<"H", "D", "D">>, <<"S", "S", "D">>, <<"N", "V", "M", "e">>,
     <<"U", "n", "k", "n", "o", "w", "n", "(", "-", "1", ")">>,
     <<"s", "s", "d">>, <<"H", "D", "D", "+", "S", "S", "D">>}

DiskFrees ==
    {U64(0), GBytes(5), GBytes(10), BAdd(GBytes(10), U64(1)), GBytes(20),
     BAdd(GBytes(20), U64(1)), GBytes(50), BAdd(GBytes(50), U64(1)), GBytes(100),
     BAdd(GBytes(100), U64(1)), GBytes(200)}

DiskInfos ==
    {DiskInfoOf("C:", Pct(u), l, a) :
        u \in {0, 6999, 7000, 8499, 8500, 9499, 9500, 9600, 10000},
        l \in DiskLabels, a \in DiskFrees}

ListedDisks ==
    {DiskInfoOf("C:", Pct(9600), <<"H", "D", "D">>, GBytes(5)),
     DiskInfoOf("D:", Pct(5000), <<"N", "V", "M", "e">>, GBytes(200)),
     DiskInfoOf("E:", Pct(5000), <<"S", "S", "D">>, GBytes(60)),
     DiskInfoOf("F:", Pct(9000), <<"U", "n", "k", "n", "o", "w", "n", "(", "-", "1", ")">>,
                GBytes(15))}

DiskLists == {<<d>> : d \in DiskInfos} \cup SeqsUpTo(ListedDisks, MaxDisks)

InitDisk ==
    /\ host = NoHost
    /\ \E di \in DiskLists : Frames("disk_score", NoCpuInfo, NoRamInfo, di, F64Zero)

NextDisk == DiskScoreStep(1)

SpecDisk == InitDisk /\ [][NextDisk]_vars

\* determine_category: the tenths of [0, 10] and the neighbours of 3, 5 and 7
Overalls ==
    {Pct(10 * k) : k \in 0..100}
    \cup {JustBelow(3, 51), JustAbove(3, 51), JustBelow(5, 50), JustAbove(5, 50),
          JustBelow(7, 50), JustAbove(7, 50)}

InitCat ==
    /\ host = NoHost
    /\ \E overall \in Overalls : Frames("category", NoCpuInfo, NoRamInfo, <<>>, overall)

NextCat == CategoryStep(1)

SpecCat == InitCat /\ [][NextCat]_vars

\* generate_recommendations
RecCpuInfos == {CpuInfoOf(n, Pct32(u), 3000) : n \in {0, 1, 2}, u \in {8000, 8001}}

RecRamInfos ==
    {RamInfoOf(t, Pct(u), MiB(2048), Pct(s)) :
        t \in {BSub(MiB(4096), U64(1)), MiB(4096)}, u \in {8500, 8501},
        s \in {5000, 5001}}

RecDisks ==
    {DiskInfoOf("C:", Pct(9600), <<"H", "D", "D">>, GBytes(5)),
     DiskInfoOf("D:", Pct(9000), <<"S", "S", "D">>, GBytes(10)),
     DiskInfoOf("E:", Pct(5000), <<"H", "D", "D">>, BSub(GBytes(10), U64(1)))}

RecOveralls ==
    {Pct(n) : n \in {0, 250, 300, 499, 500, 699, 700, 1000}}
    \cup {JustBelow(3, 51), JustBelow(5, 50), JustBelow(7, 50)}

InitRec ==
    /\ host = NoHost
    /\ \E ci \in RecCpuInfos, ri \in RecRamInfos,
          di \in SeqsUpTo(RecDisks, MaxDisks), overall \in RecOveralls :
            Frames("recommendations", ci, ri, di, overall)

NextRec == RecommendationsStep(1)

SpecRec == InitRec /\ [][NextRec]_vars

(***************************************************************************)
(* The scoring functions on two inputs.  Invocation 1 and invocation 2     *)
(* start after their collectors with inputs that differ in one field of    *)
(* one component, or whose disk lists hold the same disks in another order *)
(* and with other capacities.                                              *)
(***************************************************************************)
MaxPermuted == 3

\* the pairs <<x, y>> of S with x <= y
UpPairs(S) == {p \in S \X S : p[1] <= p[2]}

\* the pairs of CpuInfo that differ in the cores, the utilization or the
\* frequency, one value of every band
PairCpus ==
    LET cores == {1, 2, 4, 8, 16}
        percents == {0, 3000, 6000, 8500}
        frequencies == {1999, 2000, 3000, 4000}
    IN  {<<CpuInfoOf(p[1], Pct32(u), f), CpuInfoOf(p[2], Pct32(u), f)>> :
            p \in UpPairs(cores), u \in percents, f \in frequencies}
        \cup {<<CpuInfoOf(n, Pct32(p[1]), f), CpuInfoOf(n, Pct32(p[2]), f)>> :
            n \in cores, p \in UpPairs(percents), f \in frequencies}
        \cup {<<CpuInfoOf(n, Pct32(u), p[1]), CpuInfoOf(n, Pct32(u), p[2])>> :
            n \in cores, u \in percents, p \in UpPairs(frequencies)}

\* the pairs of RamInfo that differ in the total RAM, the RAM usage or the
\* swap usage
PairRams ==
    LET swaps == {0, 1000, 3000, 5000}
        totals == {2048, 4096, 8192, 16384}
        percents == {0, 6000, 7500, 9000}
    IN  {<<RamInfoOf(MiB(p[1]), Pct(u), MiB(2048), Pct(5000)),
           RamInfoOf(MiB(p[2]), Pct(u), MiB(2048), Pct(5000))>> :
            p \in UpPairs(totals), u \in percents}
        \cup {<<RamInfoOf(MiB(t), Pct(p[1]), MiB(2048), Pct(1000)),
                RamInfoOf(MiB(t), Pct(p[2]), MiB(2048), Pct(1000))>> :
            t \in totals, p \in UpPairs(percents)}
        \cup {<<RamInfoOf(MiB(t), Pct(u), s, Pct(p[1])), RamInfoOf(MiB(t), Pct(u), s, Pct(p[2]))>> :
            t \in totals, u \in percents, s \in {U64(0), MiB(2048)}, p \in UpPairs(swaps)}

\* the pairs of disk lists that differ in the usage or the available space
\* of a disk: a list of one disk, and the same disk after another one
PairDisks ==
    LET percents == {0, 7000, 8500, 9500}
        frees == {5, 15, 30, 60, 200}
        labels == {STR_SSD, STR_HDD, DiskKindDebug("Unknown")}
        one == {<<DiskInfoOf("C:", Pct(p[1]), l, GBytes(a)),
                  DiskInfoOf("C:", Pct(p[2]), l, GBytes(a))>> :
                    p \in UpPairs(percents), l \in labels, a \in frees}
               \cup {<<DiskInfoOf("C:", Pct(u), l, GBytes(p[1])),
                       DiskInfoOf("C:", Pct(u), l, GBytes(p[2]))>> :
                    u \in percents, l \in labels, p \in UpPairs(frees)}
        other == DiskInfoOf("D:", Pct(9000), STR_HDD, GBytes(60))
    IN  {<<<<p[1]>>, <<p[2]>>>> : p \in one}
        \cup {<<<<other, p[1]>>, <<other, p[2]>>>> :
                p \in {q \in one : q[1].disk_type = STR_SSD}}

\* three disks the sum of whose scores depends on the order of the addition
PermutedDisks ==
    {DiskInfoOf("C:", Pct(5000), STR_SSD, GBytes(200)),
     DiskInfoOf("D:", Pct(5000), STR_SSD, GBytes(60)),
     DiskInfoOf("E:", Pct(5000), STR_SSD, GBytes(5))}

\* the disk with a total space of 1024 GiB, used to the same percentage
Resized(disk) ==
    [disk EXCEPT !.total_space = MiB(1048576),
                 !.used_space = BSub(MiB(1048576), disk.available_space)]

\* a list, and a list of the same disks in any order, resized or not
PairPermuted ==
    LET lists == SeqsUpTo(PermutedDisks, MaxPermuted) \ {<<>>}
        same(l, m) ==
            /\ Len(l) = Len(m)
            /\ \A d \in PermutedDisks :
                  Cardinality({i \in 1..Len(l) : l[i] = d})
                      = Cardinality({i \in 1..Len(m) : m[i] = d})
    IN  UNION {{<<q[1], q[2]>>, <<q[1], [i \in 1..Len(q[2]) |-> Resized(q[2][i])]>>} :
                  q \in {r \in lists \X lists : same(r[1], r[2])}}

\* the worst and the best CpuInfo, RamInfo and disk list
Worst ==
    [cpu |-> CpuInfoOf(1, Pct32(8500), 1999),
     ram |-> RamInfoOf(MiB(2048), Pct(9000), MiB(2048), Pct(5000)),
     disks |-> <<DiskInfoOf("C:", Pct(9500), STR_HDD, GBytes(5))>>]
Best ==
    [cpu |-> CpuInfoOf(16, Pct32(0), 4000),
     ram |-> RamInfoOf(MiB(16384), Pct(0), MiB(2048), Pct(0)),
     disks |-> <<DiskInfoOf("C:", Pct(0), STR_SSD, GBytes(200))>>]
WorstAndBest == {Worst, Best}

\* the inputs of the two invocations
PairInputs ==
    {[c \in Calls |-> [r EXCEPT !.cpu = p[c]]] : p \in PairCpus, r \in WorstAndBest}
    \cup {[c \in Calls |-> [r EXCEPT !.ram = p[c]]] : p \in PairRams, r \in WorstAndBest}
    \cup {[c \in Calls |-> [r EXCEPT !.disks = p[c]]] : p \in PairDisks, r \in WorstAndBest}
    \cup {[c \in Calls |-> [Best EXCEPT !.disks = p[c]]] : p \in PairPermuted}

InitPair ==
    /\ host = NoHost
    /\ \E input \in PairInputs :
          /\ cpuInfo = [c \in Calls |-> input[c].cpu]
          /\ ramInfo = [c \in Calls |-> input[c].ram]
          /\ disksInfo = [c \in Calls |-> input[c].disks]
    /\ pc = [c \in Calls |-> "cpu_score"]
    /\ cpu_score = [c \in Calls |-> F64Zero]
    /\ ram_score = [c \in Calls |-> F64Zero]
    /\ disk_score = [c \in Calls |-> F64Zero]
    /\ overall_score = [c \in Calls |-> F64Zero]
    /\ category = [c \in Calls |-> "none"]
    /\ recommendations = [c \in Calls |-> <<>>]
    /\ returned = [c \in Calls |-> <<>>]
    /\ NoMain

\* the second invocation follows the first
NextPair ==
    \E c \in Calls :
        /\ c = 2 => pc[1] = "category"
        /\ \/ CpuScoreStep(c)
           \/ RamScoreStep(c)
           \/ DiskScoreStep(c)
           \/ OverallScoreStep(c)

SpecPair == InitPair /\ [][NextPair]_vars

(***************************************************************************)
(* calculate_performance_score on inputs at the edges of the worst bands:  *)
(* total RAM around 4 * 2^30 bytes and free disk space around 10 * 10^9     *)
(* bytes, from the scores to the recommendations.                          *)
(***************************************************************************)
WarnRams ==
    {RamInfoOf(t, Pct(u), s, Pct(1000)) :
        t \in {U64(0), MiB(2048), MiB(4000), BSub(MiB(4096), U64(1)), MiB(4096),
               BAdd(MiB(4096), U64(1)), MiB(8192), MiB(16384)},
        u \in {5000, 9500}, s \in {U64(0), MiB(2048)}}

WarnDisks ==
    {DiskInfoOf("A:", Pct(5000), STR_HDD, U64(0)),
     DiskInfoOf("B:", Pct(5000), STR_HDD, GBytes(5)),
     DiskInfoOf("C:", Pct(5000), STR_HDD, BSub(GBytes(10), U64(1))),
     DiskInfoOf("D:", Pct(5000), STR_HDD, GBytes(10)),
     DiskInfoOf("E:", Pct(5000), STR_HDD, BAdd(GBytes(10), U64(1))),
     DiskInfoOf("F:", Pct(5000), STR_HDD, GBytes(15)),
     DiskInfoOf("G:", Pct(9600), STR_SSD, BSub(GBytes(10), U64(1))),
     DiskInfoOf("H:", Pct(9600), STR_SSD, GBytes(200))}

\* every RAM with at most one disk, and the RAM a byte short of 4 GiB with
\* every list of disks
WarnInputs ==
    LET lists == SeqsUpTo(WarnDisks, MaxDisks)
    IN  {<<r, l>> : r \in WarnRams, l \in {m \in lists : Len(m) <= 1}}
        \cup {<<RamInfoOf(BSub(MiB(4096), U64(1)), Pct(5000), U64(0), Pct(1000)), l>> :
                l \in lists}

InitWarn ==
    /\ host = NoHost
    /\ \E input \in WarnInputs :
          Frames("cpu_score", CpuInfoOf(4, Pct32(5000), 3000), input[1], input[2],
                 F64Zero)

NextWarn ==
    \/ CpuScoreStep(1)
    \/ RamScoreStep(1)
    \/ DiskScoreStep(1)
    \/ OverallScoreStep(1)
    \/ CategoryStep(1)
    \/ RecommendationsStep(1)

SpecWarn == InitWarn /\ [][NextWarn]_vars

(***************************************************************************)
(* The text functions.  A number printed with a fixed count of decimals is *)
(* kept as the integer its digits spell: {:.1} of 6.8 is 68.               *)
(***************************************************************************)
\* the integer nearest to k * x; a tie goes up when ties_up and to the even
\* neighbour otherwise
ScaledRound(x, k, ties_up) ==
    LET n == BMulSmall(x.m, k)
    IN  IF x.e >= 0 THEN BToNat(BShl(n, x.e))
        ELSE LET q    == BShr(n, 0 - x.e)
                 r    == BSub(n, BShl(q, 0 - x.e))
                 half == BShl(BFromNat(1), (0 - x.e) - 1)
                 c    == BCmp(r, half)
             IN  BToNat(q) + (IF c = 1 \/ (c = 0 /\ (ties_up \/ BIsOdd(q)))
                              THEN 1 ELSE 0)

\* format!("{:.1}", x) and format!("{:.2}", x)
Fixed1(x) == ScaledRound(x, 10, FALSE)
Fixed2(x) == ScaledRound(x, 100, FALSE)

\* x.round() as usize
round(x) == ScaledRound(x, 1, TRUE)

\* the decimal digits of n
RECURSIVE Decimal(_)
Decimal(n) ==
    IF n < 10 THEN <<n>> ELSE Append(Decimal(n \div 10), n % 10)

\* PerformanceCategory::description
description(k) ==
    CASE k = "Descarte" -> "DESCARTE - Upgrade completo necessario"
      [] k = "Manutencao" -> "MANUTENCAO URGENTE - Requer acoes corretivas"
      [] k = "Precaucao" -> "USO COM PRECAUCAO - Monitorar constantemente"
      [] k = "BomEstado" -> "BOM ESTADO - Adequado para uso normal"

\* the lines of display_performance_score that depend on the score
display_performance_score(score) ==
    LET bar_width == 40
        filled == round(F64Mul(F64Div(score.overall_score, Lit["10.0"]),
                               F64FromNat(bar_width)))
    IN  [overall |-> Fixed1(score.overall_score),
         filled |-> filled, empty |-> bar_width - filled,
         category |-> description(score.category),
         cpu |-> Fixed1(score.cpu_score),
         ram |-> Fixed1(score.ram_score),
         disk |-> Fixed1(score.disk_score),
         recommendations |-> score.recommendations]

\* utils::bytes_to_gb_f64 and utils::bytes_to_gb
bytes_to_gb_f64(bytes) == F64Div(F64FromBig(bytes), GB)
bytes_to_gb(bytes) == Fixed2(bytes_to_gb_f64(bytes))

\* utils::progress_bar: the counts of filled and of empty cells
progress_bar(percent, width) ==
    LET filled == round(F64Mul(F64Div(percent, Lit["100.0"]), F64FromNat(width)))
    IN  <<filled, IF width > filled THEN width - filled ELSE 0>>

\* the lines of generate_report for one disk
report_disk(disk) ==
    [name |-> disk.name, mount_point |-> disk.mount_point,
     file_system |-> disk.file_system, disk_type |-> disk.disk_type,
     total |-> bytes_to_gb(disk.total_space),
     used |-> bytes_to_gb(disk.used_space),
     available |-> bytes_to_gb(disk.available_space),
     usage |-> Fixed1(disk.usage_percent),
     bar |-> progress_bar(disk.usage_percent, 20)]

\* utils::generate_report on the host h
generate_report(h) ==
    LET cpu   == cpu_info(h)
        ram   == ram_info(h)
        disks == disk_info(h)
    IN  [cpu |-> [name |-> cpu.name, number_cpus |-> cpu.number_cpus,
                  physical_cores |-> cpu.physical_cores,
                  frequency |-> cpu.frequency,
                  usage |-> Fixed1(cpu.cpu_usage),
                  bar |-> progress_bar(cpu.cpu_usage, 20)],
         ram |-> [total |-> bytes_to_gb(ram.total_ram),
                  used |-> bytes_to_gb(ram.used_ram),
                  usage |-> Fixed1(ram.ram_usage_percent),
                  free |-> bytes_to_gb(ram.free_ram),
                  bar |-> progress_bar(ram.ram_usage_percent, 20),
                  swap |-> IF BCmp(ram.total_swap, U64(0)) = 1
                           THEN <<bytes_to_gb(ram.total_swap),
                                  bytes_to_gb(ram.used_swap),
                                  Fixed1(ram.swap_usage_percent)>>
                           ELSE <<>>],
         disks |-> [i \in 1..Len(disks) |-> report_disk(disks[i])],
         score |-> <<>>]

(***************************************************************************)
(* The command-line programs: main of src/bin/main.rs and of src/main.rs.  *)
(* Invocation 1 of calculate_performance_score is the call of main,        *)
(* invocation 2 the call of generate_complete_report.  The host goes on    *)
(* changing and the clock goes on ticking while main runs.                 *)
(***************************************************************************)
BIN == "bin/main.rs"
MAIN == "main.rs"
Programs == {BIN, MAIN}

Argvs ==
    {<<"hardware-diagnostic">>} \cup
    {<<"hardware-diagnostic", flag>> :
        flag \in {"--save", "-s", "--full", "-f", "--help", "-h"}} \cup
    {<<"hardware-diagnostic", "--help", "--save">>}

\* an idle and a loaded moment of one machine
CliHosts ==
    {[cpus |-> Cores(4, Half(h), 3000), physical_core_count |-> <<2>>,
      mem |-> Mem(MiB(8192), MiB(6963), U64(0), U64(0)),
      disks |-> <<HostDisk("C:", MiB(476940), GBytes(200), "SSD")>>] : h \in {20, 170}}

MaxTicks == 1
StartTimes == {9, 1700000000}
Times == UNION {s..(s + MaxTicks) : s \in StartTimes}

frames == <<pc, cpuInfo, ramInfo, disksInfo, cpu_score, ram_score, disk_score,
            overall_score, category, recommendations, returned>>

InitCli ==
    /\ host \in CliHosts
    /\ Locals("idle", NoCpuInfo, NoRamInfo, <<>>, F64Zero)
    /\ program \in Programs
    /\ args \in Argvs
    /\ main_pc = "banner"
    /\ summary = <<>>
    /\ timestamp = <<>>
    /\ report = <<>>
    /\ console = <<>>
    /\ writes = <<>>
    /\ now \in StartTimes

\* args.len() > 1 && (args[1] == long || args[1] == short)
Flag(long, short) == Len(args) > 1 /\ args[2] \in {long, short}

\* println! and eprintln!
Say(stream, line, data) ==
    console' = Append(console, [stream |-> stream, line |-> line, data |-> data])

\* the title lines
MainBanner ==
    /\ main_pc = "banner"
    /\ Say("stdout", "DIAGNOSTICO DE HARDWARE", <<>>)
    /\ main_pc' = IF program = MAIN THEN "collect" ELSE "score"
    /\ UNCHANGED <<host, frames, program, args, summary, timestamp, report, writes, now>>

\* main.rs: let cpu = engine::cpu_info(); let ram = ...; let disks = ...;
MainCollect ==
    /\ main_pc = "collect"
    /\ summary' = <<[cpu |-> cpu_info(host), ram |-> ram_info(host),
                     disks |-> disk_info(host)]>>
    /\ main_pc' = "score"
    /\ UNCHANGED <<host, frames, program, args, timestamp, report, console, writes, now>>

\* the call of an invocation of calculate_performance_score
Call(c) ==
    /\ pc[c] = "idle"
    /\ pc' = [pc EXCEPT ![c] = "cpu_info"]
    /\ UNCHANGED <<cpuInfo, ramInfo, disksInfo, cpu_score, ram_score, disk_score,
                   overall_score, category, recommendations, returned>>

\* let performance_score = calculate_performance_score(); the call
MainScoreCall ==
    /\ main_pc = "score"
    /\ Call(1)
    /\ main_pc' = "scoring"
    /\ UNCHANGED <<host, program, args, summary, timestamp, report, console, writes, now>>

\* let performance_score = calculate_performance_score(); the return
MainScoreReturn ==
    /\ main_pc = "scoring"
    /\ pc[1] = "done"
    /\ main_pc' = IF program = MAIN THEN "summary" ELSE "display"
    /\ UNCHANGED <<host, frames, program, args, summary, timestamp, report, console,
                   writes, now>>

\* main.rs: the lines of RESUMO DO SISTEMA
MainSummary ==
    /\ main_pc = "summary"
    /\ LET cpu == summary[1].cpu
           ram == summary[1].ram
           disks == summary[1].disks
       IN  Say("stdout", "RESUMO DO SISTEMA",
               [cpu |-> <<cpu.name, Fixed1(cpu.cpu_usage)>>,
                nucleos |-> <<cpu.number_cpus,
                              IF cpu.physical_cores = <<>> THEN 0
                              ELSE cpu.physical_cores[1]>>,
                ram |-> <<Fixed1(bytes_to_gb_f64(ram.used_ram)),
                          Fixed1(bytes_to_gb_f64(ram.total_ram)),
                          Fixed1(ram.ram_usage_percent)>>,
                discos |-> Len(disks),
                disco |-> [i \in 1..Len(disks) |->
                             <<disks[i].name,
                               Fixed1(bytes_to_gb_f64(disks[i].available_space)),
                               Fixed1(disks[i].usage_percent)>>]])
    /\ main_pc' = "display"
    /\ UNCHANGED <<host, frames, program, args, summary, timestamp, report, writes, now>>

\* println!("\n{}", display_performance_score(&performance_score));
MainDisplay ==
    /\ main_pc = "display"
    /\ Say("stdout", "PONTUACAO DE DESEMPENHO DA MAQUINA",
           display_performance_score(returned[1][1]))
    /\ main_pc' = "decision"
    /\ UNCHANGED <<host, frames, program, args, summary, timestamp, report, writes, now>>

\* match performance_score.category { ... }
MainDecision ==
    /\ main_pc = "decision"
    /\ LET score == returned[1][1]
           acao  == CASE score.category = "Descarte" -> "DESCARTE/UPGRADE COMPLETO"
                      [] score.category = "Manutencao" -> "MANUTENCAO URGENTE"
                      [] score.category = "Precaucao" -> "USO COM PRECAUCAO"
                      [] score.category = "BomEstado" -> "USO NORMAL"
       IN  Say("stdout", "DECISAO RECOMENDADA", <<acao, Fixed1(score.overall_score)>>)
    /\ main_pc' = IF program = MAIN THEN "timestamp" ELSE "save"
    /\ UNCHANGED <<host, frames, program, args, summary, timestamp, report, writes, now>>

\* main.rs: let timestamp = ...as_secs(); println!("Relatorio gerado em: {}", ...)
MainTimestamp ==
    /\ main_pc = "timestamp"
    /\ timestamp' = <<now>>
    /\ Say("stdout", "Relatorio gerado em", Decimal(now))
    /\ main_pc' = "save"
    /\ UNCHANGED <<host, frames, program, args, summary, report, writes, now>>

\* if args.len() > 1 && (args[1] == "--save" || args[1] == "-s") { ...
\* bin/main.rs takes the timestamp here
MainSave ==
    /\ main_pc = "save"
    /\ IF Flag("--save", "-s")
       THEN /\ timestamp' = IF program = BIN THEN <<now>> ELSE timestamp
            /\ main_pc' = "generate_report"
       ELSE /\ timestamp' = timestamp
            /\ main_pc' = IF program = BIN THEN "help" ELSE "full"
    /\ UNCHANGED <<host, frames, program, args, summary, report, console, writes, now>>

\* let mut report = generate_report(); report.push_str("\n");
GenerateReport ==
    /\ main_pc = "generate_report"
    /\ report' = generate_report(host)
    /\ main_pc' = "report_score"
    /\ UNCHANGED <<host, frames, program, args, summary, timestamp, console, writes, now>>

\* display_performance_score(&calculate_performance_score()): the call
CompleteReportCall ==
    /\ main_pc = "report_score"
    /\ Call(2)
    /\ main_pc' = "report_scoring"
    /\ UNCHANGED <<host, program, args, summary, timestamp, report, console, writes, now>>

\* report.push_str(&display_performance_score(...)); report
CompleteReportReturn ==
    /\ main_pc = "report_scoring"
    /\ pc[2] = "done"
    /\ report' = [report EXCEPT !.score = <<display_performance_score(returned[2][1])>>]
    /\ main_pc' = IF Flag("--save", "-s") THEN "write" ELSE "print_report"
    /\ UNCHANGED <<host, frames, program, args, summary, timestamp, console, writes, now>>

\* format!("diagnostico_{}.txt", timestamp)
filename(secs) == <<"diagnostico_">> \o Decimal(secs) \o <<".txt">>

\* the result of the write unwrapped: a failed write ends the process
MainWriteUnwrap ==
    /\ main_pc = "write"
    /\ \E result \in {"Ok", "Err"} :
          /\ writes' = Append(writes, [path |-> filename(timestamp[1]),
                                       contents |-> report, result |-> result])
          /\ IF result = "Ok"
             THEN /\ Say("stdout", "Relatorio salvo", filename(timestamp[1]))
                  /\ main_pc' = IF program = BIN THEN "help" ELSE "full"
             ELSE /\ console' = console
                  /\ main_pc' = "panicked"
    /\ UNCHANGED <<host, frames, program, args, summary, timestamp, report, now>>

\* std::fs::write(&filename, full_report) and the message of its result
MainWrite ==
    /\ main_pc = "write"
    /\ \E result \in {"Ok", "Err"} :
          /\ writes' = Append(writes, [path |-> filename(timestamp[1]),
                                       contents |-> report, result |-> result])
          /\ IF result = "Ok"
             THEN Say("stdout", "Relatorio salvo", filename(timestamp[1]))
             ELSE Say("stderr", "Erro ao salvar", <<>>)
    /\ main_pc' = IF program = BIN THEN "help" ELSE "full"
    /\ UNCHANGED <<host, frames, program, args, summary, timestamp, report, now>>

\* bin/main.rs: if args.len() > 1 && (args[1] == "--help" || args[1] == "-h")
MainHelp ==
    /\ main_pc = "help"
    /\ IF Flag("--help", "-h")
       THEN Say("stdout", "AJUDA", <<>>)
       ELSE console' = console
    /\ main_pc' = "end"
    /\ UNCHANGED <<host, frames, program, args, summary, timestamp, report, writes, now>>

\* bin/main.rs: the closing line
MainEnd ==
    /\ main_pc = "end"
    /\ Say("stdout", "====", <<>>)
    /\ main_pc' = "exit"
    /\ UNCHANGED <<host, frames, program, args, summary, timestamp, report, writes, now>>

\* main.rs: the closing line and
\* if args.len() > 1 && (args[1] == "--full" || args[1] == "-f") { ...
MainFull ==
    /\ main_pc = "full"
    /\ Say("stdout", "====", <<>>)
    /\ main_pc' = IF Flag("--full", "-f") THEN "generate_report" ELSE "exit"
    /\ UNCHANGED <<host, frames, program, args, summary, timestamp, report, writes, now>>

\* main.rs: println!("{}", utils::generate_complete_report()); the call
\* utils::write_report() that follows names a function engine.rs does not
\* define, and nothing is modelled for it
MainPrintReport ==
    /\ main_pc = "print_report"
    /\ Say("stdout", "RELATORIO COMPLETO", report)
    /\ main_pc' = "exit"
    /\ UNCHANGED <<host, frames, program, args, summary, timestamp, report, writes, now>>

\* the load of the machine changes
HostChanges ==
    /\ main_pc # "exit"
    /\ host' \in CliHosts \ {host}
    /\ UNCHANGED <<frames, mainVars>>

\* a second passes
Tick ==
    /\ main_pc # "exit"
    /\ now + 1 \in Times
    /\ now' = now + 1
    /\ UNCHANGED <<host, frames, program, args, main_pc, summary, timestamp, report,
                   console, writes>>

\* the statements of main and of the functions it calls
MainNext ==
    \/ MainBanner
    \/ MainCollect
    \/ MainScoreCall
    \/ MainScoreReturn
    \/ MainSummary
    \/ MainDisplay
    \/ MainDecision
    \/ MainTimestamp
    \/ MainSave
    \/ GenerateReport
    \/ CompleteReportCall
    \/ CompleteReportReturn
    \/ MainWrite
    \/ MainHelp
    \/ MainEnd
    \/ MainFull
    \/ MainPrintReport
    \/ \E c \in Calls : Steps(c)

NextCli == MainNext \/ HostChanges \/ Tick

SpecCli == InitCli /\ [][NextCli]_vars

(***************************************************************************)
(* Properties.  The statements carry their own comparisons, constants and  *)
(* band tables: a threshold is a whole number compared by value, a byte    *)
(* count is compared as an integer, and a weight is the literal taken to   *)
(* the nearest binary64.                                                   *)
(***************************************************************************)
Num(n) == F64FromNat(n)
Below(x, n) == F64Cmp(x, Num(n)) = -1
Above(x, n) == F64Cmp(x, Num(n)) = 1
InRange(x) == ~Below(x, 0) /\ ~Above(x, 10)
Clamped(x) == IF Below(x, 0) THEN Num(0) ELSE IF Above(x, 10) THEN Num(10) ELSE x

\* a/10 * x + b/10 * y + c/10 * z, added from the left
Weighted(a, x, b, y, c, z) ==
    F64Add(F64Add(F64Mul(F64Lit(a, 10), x), F64Mul(F64Lit(b, 10), y)),
           F64Mul(F64Lit(c, 10), z))

Categories == {"Descarte", "Manutencao", "Precaucao", "BomEstado"}

InBand(k, x) ==
    CASE k = "Descarte" -> Below(x, 3)
      [] k = "Manutencao" -> ~Below(x, 3) /\ Below(x, 5)
      [] k = "Precaucao" -> ~Below(x, 5) /\ Below(x, 7)
      [] k = "BomEstado" -> ~Below(x, 7)

CategoryOf(x) == CHOOSE k \in Categories : InBand(k, x)

\* C1: the four scores of every PerformanceScore returned by
\* calculate_performance_score lie in the closed interval [0.0, 10.0].
C1_ScoresInRange ==
    \A c \in Calls :
        returned[c] # <<>> =>
            /\ InRange(returned[c][1].cpu_score)
            /\ InRange(returned[c][1].ram_score)
            /\ InRange(returned[c][1].disk_score)
            /\ InRange(returned[c][1].overall_score)

\* a score was returned for a host with two disks whose every component
\* reaches the top of the range
C1_Witness ==
    /\ returned[1] # <<>>
    /\ Len(disksInfo[1]) = 2
    /\ returned[1][1].cpu_score = Num(10)
    /\ returned[1][1].ram_score = Num(10)
    /\ returned[1][1].disk_score = Num(10)
    /\ returned[1][1].overall_score = Num(10)

\* C2: determine_category gives every overall score of [0, 10] exactly one
\* category: Descarte below 3.0, Manutencao from 3.0 to below 5.0, Precaucao
\* from 5.0 to below 7.0, BomEstado from 7.0 on; 3.0, 5.0 and 7.0 themselves
\* belong to the higher band.
C2_CategoryBands ==
    \A c \in Calls :
        category[c] # "none" =>
            /\ category[c] \in Categories
            /\ \A k \in Categories : (category[c] = k) <=> InBand(k, overall_score[c])

\* the score exactly 3.0 has been categorised
C2_Witness ==
    /\ pc[1] = "recommendations"
    /\ overall_score[1] = Num(3)
    /\ category[1] = "Manutencao"

GeneralOf(k) ==
    CASE k = "Descarte" -> Rec(REC_DESCARTE)
      [] k = "Manutencao" -> Rec(REC_MANUTENCAO)
      [] k = "Precaucao" -> Rec(REC_PRECAUCAO)
      [] k = "BomEstado" -> Rec(REC_BOM_ESTADO)

ClosingOf(k) ==
    CASE k = "Descarte" -> Rec(ACAO_SUBSTITUIR)
      [] k = "Manutencao" -> Rec(ACAO_MANUTENCAO)
      [] k = "Precaucao" -> Rec(ACAO_MONITORAMENTO)
      [] k = "BomEstado" -> Rec(ACAO_PREVENTIVA)

\* C3: the list returned by generate_recommendations is never empty, its
\* first element is the general message of the category of the overall score
\* and its last element is the closing action of that category.
C3_FirstAndLast ==
    \A c \in Calls :
        pc[c] = "return" =>
            LET recs == recommendations[c]
                k    == CategoryOf(overall_score[c])
            IN  /\ recs # <<>>
                /\ recs[1] = GeneralOf(k)
                /\ recs[Len(recs)] = ClosingOf(k)

\* the list for the overall score 2.5 with warnings between the discard
\* message and the closing action
C3_Witness ==
    /\ pc[1] = "return"
    /\ overall_score[1] = F64Lit(25, 10)
    /\ Len(recommendations[1]) > 4
    /\ recommendations[1][1].fmt = REC_DESCARTE
    /\ recommendations[1][Len(recommendations[1])].fmt = ACAO_SUBSTITUIR

ComponentWarnings ==
    {REC_CPU_USO, REC_CPU_NUCLEO, REC_RAM_USO, REC_RAM_INSUFICIENTE, REC_SWAP,
     REC_DISCO_CHEIO, REC_DISCO_HDD, REC_DISCO_LIVRE}

ClosingActions ==
    {ACAO_SUBSTITUIR, ACAO_MANUTENCAO, ACAO_MONITORAMENTO, ACAO_PREVENTIVA}

IsGeneral(rec) == rec.fmt \notin ComponentWarnings \cup ClosingActions

GeneralCount(recs) == Cardinality({i \in 1..Len(recs) : IsGeneral(recs[i])})

\* C4 as stated: in each of the four bands the entries of the list that are
\* neither component warnings nor the closing action number exactly one.
C4_ExactlyOneGeneral ==
    \A c \in Calls :
        pc[c] = "return" => GeneralCount(recommendations[c]) = 1

\* C4 as amended: the entries that are neither component warnings nor the
\* closing action stand at the head of the list; they number exactly one in
\* the bands from 3.0 on, and exactly two below 3.0: the discard message
\* followed by the upgrade suggestion.
C4_GeneralPerBand ==
    \A c \in Calls :
        pc[c] = "return" =>
            LET recs == recommendations[c]
                n    == IF Below(overall_score[c], 3) THEN 2 ELSE 1
            IN  /\ GeneralCount(recs) = n
                /\ \A i \in 1..Len(recs) : IsGeneral(recs[i]) <=> i <= n
                /\ n = 2 => recs[1] = Rec(REC_DESCARTE) /\ recs[2] = Rec(REC_SUGESTAO)

\* a list of the band below 3.0, with component warnings
C4_Witness ==
    /\ pc[1] = "return"
    /\ Below(overall_score[1], 3)
    /\ GeneralCount(recommendations[1]) = 2
    /\ Len(recommendations[1]) > 5

C6_OverallIsWeightedSum ==
    \A c \in Calls :
        returned[c] # <<>> =>
            LET r == returned[c][1]
            IN  /\ r.overall_score =
                     Weighted(4, r.cpu_score, 3, r.ram_score, 3, r.disk_score)
                /\ r.category = CategoryOf(r.overall_score)

\* a result whose three component scores differ pairwise
C6_Witness ==
    /\ returned[1] # <<>>
    /\ returned[1][1].cpu_score # returned[1][1].ram_score
    /\ returned[1][1].ram_score # returned[1][1].disk_score
    /\ returned[1][1].cpu_score # returned[1][1].disk_score
    /\ returned[1][1].category = "Manutencao"

CpuC(number_cpus) ==
    IF number_cpus <= 1 THEN 2
    ELSE IF number_cpus = 2 THEN 4
    ELSE IF number_cpus <= 4 THEN 6
    ELSE IF number_cpus <= 8 THEN 8
    ELSE 10

CpuU(cpu_usage) ==
    IF Below(cpu_usage, 30) THEN 10
    ELSE IF Below(cpu_usage, 60) THEN 7
    ELSE IF Below(cpu_usage, 85) THEN 4
    ELSE 1

CpuF(frequency) ==
    IF frequency < 2000 THEN 3
    ELSE IF frequency < 3000 THEN 6
    ELSE IF frequency < 4000 THEN 8
    ELSE 10

\* C7: calculate_cpu_score returns clamp(0.4*C + 0.4*U + 0.2*F), with C by
\* core count (0-1: 2, 2: 4, 3-4: 6, 5-8: 8, 9 or more: 10), U by utilization
\* (< 30: 10, < 60: 7, < 85: 4, else 1) and F by frequency (< 2000: 3,
\* < 3000: 6, < 4000: 8, else 10); a value on a threshold is in the next band.
C7_CpuScoreFormula ==
    \A c \in Calls :
        pc[c] = "ram_score" =>
            cpu_score[c] =
                Clamped(Weighted(4, Num(CpuC(cpuInfo[c].number_cpus)),
                                 4, Num(CpuU(cpuInfo[c].cpu_usage)),
                                 2, Num(CpuF(cpuInfo[c].frequency))))

\* a CpuInfo with the utilization and the frequency each on a threshold
C7_Witness ==
    /\ pc[1] = "ram_score"
    /\ cpuInfo[1].number_cpus = 4
    /\ cpuInfo[1].cpu_usage = Num(30)
    /\ cpuInfo[1].frequency = 3000
    /\ Above(cpu_score[1], 6)
    /\ Below(cpu_score[1], 7)

IsExample1(ci) ==
    /\ ci.number_cpus = 8
    /\ ci.cpu_usage = Num(20)
    /\ ci.frequency = 3500

\* C8 as stated: 8 logical cores, 20% utilization and 3500 MHz score
\* exactly 8.0.
C8_ExampleScoresEight ==
    \A c \in Calls :
        (pc[c] = "ram_score" /\ IsExample1(cpuInfo[c])) => cpu_score[c] = Num(8)

\* C8 as amended: 8 logical cores, 20% utilization and 3500 MHz score 8.8,
\* the sum 8.0*0.4 + 10.0*0.4 + 8.0*0.2 of the factors and weights named.
C8_ExampleScoresEightPointEight ==
    \A c \in Calls :
        (pc[c] = "ram_score" /\ IsExample1(cpuInfo[c])) =>
            cpu_score[c] = F64Lit(88, 10)

\* the CPU of the example has been scored
C8_Witness ==
    /\ pc[1] = "ram_score"
    /\ IsExample1(cpuInfo[1])
    /\ Above(cpu_score[1], 8)

GiBytes(n) == MiB(1024 * n)

RamU(ram_usage_percent) ==
    IF Below(ram_usage_percent, 60) THEN 10
    ELSE IF Below(ram_usage_percent, 75) THEN 7
    ELSE IF Below(ram_usage_percent, 90) THEN 4
    ELSE 1

RamS(total_swap, swap_usage_percent) ==
    IF BCmp(total_swap, <<>>) = 0 THEN 8
    ELSE IF Below(swap_usage_percent, 10) THEN 10
    ELSE IF Below(swap_usage_percent, 30) THEN 7
    ELSE IF Below(swap_usage_percent, 50) THEN 4
    ELSE 1

RamK(total_ram) ==
    IF BCmp(total_ram, GiBytes(4)) = -1 THEN 3
    ELSE IF BCmp(total_ram, GiBytes(8)) = -1 THEN 6
    ELSE IF BCmp(total_ram, GiBytes(16)) = -1 THEN 8
    ELSE 10

IsExample2(ri) ==
    /\ ri.total_ram = GiBytes(8)
    /\ ri.ram_usage_percent = Num(85)
    /\ ri.total_swap = U64(0)

\* C9: calculate_ram_score returns clamp(0.5*U + 0.3*S + 0.2*K), with U by RAM
\* usage (< 60: 10, < 75: 7, < 90: 4, else 1), S the neutral 8 whenever the
\* total swap is 0, whatever the swap usage, and otherwise by swap usage
\* (< 10: 10, < 30: 7, < 50: 4, else 1), and K by total RAM (< 4 GiB: 3,
\* < 8 GiB: 6, < 16 GiB: 8, else 10); 8 GiB at 85% without swap scores 6.0.
C9_RamScoreFormula ==
    \A c \in Calls :
        pc[c] = "disk_score" =>
            /\ ram_score[c] =
                 Clamped(Weighted(5, Num(RamU(ramInfo[c].ram_usage_percent)),
                                  3, Num(RamS(ramInfo[c].total_swap,
                                              ramInfo[c].swap_usage_percent)),
                                  2, Num(RamK(ramInfo[c].total_ram))))
            /\ IsExample2(ramInfo[c]) => ram_score[c] = Num(6)

\* no swap is configured and yet the swap usage reads 75%: the score of 8 GiB
\* at 85% is the 6.0 of the example
C9_Witness ==
    /\ pc[1] = "disk_score"
    /\ IsExample2(ramInfo[1])
    /\ ramInfo[1].swap_usage_percent = Num(75)
    /\ ram_score[1] = Num(6)

HasLabel(disk, pat) ==
    \E i \in 1..Len(disk.disk_type) :
        \E j \in i..Len(disk.disk_type) : SubSeq(disk.disk_type, i, j) = pat

DiskU(disk) ==
    IF Below(disk.usage_percent, 70) THEN 10
    ELSE IF Below(disk.usage_percent, 85) THEN 7
    ELSE IF Below(disk.usage_percent, 95) THEN 4
    ELSE 1

DiskT(disk) ==
    IF HasLabel(disk, <<"S", "S", "D">>) \/ HasLabel(disk, <<"N", "V", "M", "e">>)
    THEN 10
    ELSE IF HasLabel(disk, <<"H", "D", "D">>) THEN 6
    ELSE 8

DiskF(disk) ==
    IF BCmp(disk.available_space, GBytes(100)) = 1 THEN 10
    ELSE IF BCmp(disk.available_space, GBytes(50)) = 1 THEN 8
    ELSE IF BCmp(disk.available_space, GBytes(20)) = 1 THEN 6
    ELSE IF BCmp(disk.available_space, GBytes(10)) = 1 THEN 4
    ELSE 1

Composite(disk) ==
    Clamped(Weighted(5, Num(DiskU(disk)), 3, Num(DiskT(disk)), 2, Num(DiskF(disk))))

\* the composites of the first n disks, added in the order of the list
RECURSIVE SumOfComposites(_, _)
SumOfComposites(disks, n) ==
    IF n = 0 THEN Num(0)
    ELSE F64Add(SumOfComposites(disks, n - 1), Composite(disks[n]))

IsExample3(disks) ==
    /\ Len(disks) = 1
    /\ disks[1].usage_percent = Num(96)
    /\ disks[1].disk_type = <<"H", "D", "D">>
    /\ disks[1].available_space = GBytes(5)

\* C10: for a non-empty list calculate_disk_score returns the mean over the
\* disks of clamp(0.5*U + 0.3*T + 0.2*F), with U by usage (< 70: 10, < 85: 7,
\* < 95: 4, else 1), T by label (contains SSD or NVMe: 10, contains HDD: 6,
\* otherwise 8) and F by free space (> 100 GB: 10, > 50: 8, > 20: 6, > 10: 4,
\* else 1); a single HDD at 96% with 5 GB free scores 2.5.
C10_DiskScoreIsMean ==
    \A c \in Calls :
        (pc[c] = "overall_score" /\ disksInfo[c] # <<>>) =>
            /\ disk_score[c] =
                 F64Div(SumOfComposites(disksInfo[c], Len(disksInfo[c])),
                        Num(Len(disksInfo[c])))
            /\ IsExample3(disksInfo[c]) => disk_score[c] = F64Lit(25, 10)

\* the mean of two disks of different composites, one of them an NVMe
C10_Witness ==
    /\ pc[1] = "overall_score"
    /\ Len(disksInfo[1]) = 2
    /\ disksInfo[1][1].disk_type = <<"H", "D", "D">>
    /\ disksInfo[1][2].disk_type = <<"N", "V", "M", "e">>
    /\ disk_score[1] = F64Lit(625, 100)

\* C11: for an empty disk list calculate_disk_score returns exactly 5.0, and
\* the overall score is then cpu_score*0.4 + ram_score*0.3 + 1.5; the score is
\* the fixed value, not a quotient by the disk count.
C11_NoDisksScoreFive ==
    \A c \in Calls :
        /\ (pc[c] = "overall_score" /\ disksInfo[c] = <<>>) => disk_score[c] = Num(5)
        /\ (returned[c] # <<>> /\ disksInfo[c] = <<>>) =>
              /\ returned[c][1].disk_score = Num(5)
              /\ returned[c][1].overall_score =
                   F64Add(F64Add(F64Mul(returned[c][1].cpu_score, F64Lit(4, 10)),
                                 F64Mul(returned[c][1].ram_score, F64Lit(3, 10))),
                          F64Lit(15, 10))

\* a result for a host without disks whose CPU and RAM scores differ
C11_Witness ==
    /\ returned[1] # <<>>
    /\ host.disks = <<>>
    /\ disksInfo[1] = <<>>
    /\ returned[1][1].cpu_score # returned[1][1].ram_score
    /\ returned[1][1].cpu_score # Num(5)

\* the number of entries of a list with a given text
CountOf(recs, fmt) == Cardinality({i \in 1..Len(recs) : recs[i].fmt = fmt})

OnceIff(recs, fmt, cond) == CountOf(recs, fmt) = IF cond THEN 1 ELSE 0

\* C12: each CPU and RAM warning is in the list once when its predicate holds
\* and not at all otherwise: high load iff utilization > 80, multitasking
\* limitation iff fewer than 2 logical cores, low memory iff RAM usage > 85,
\* insufficient capacity iff total RAM below 4 * 2^30 bytes, excessive swap iff
\* swap usage > 50.
C12_CpuRamWarnings ==
    \A c \in Calls :
        pc[c] = "return" =>
            LET recs == recommendations[c]
            IN  /\ OnceIff(recs, REC_CPU_USO, Above(cpuInfo[c].cpu_usage, 80))
                /\ OnceIff(recs, REC_CPU_NUCLEO, cpuInfo[c].number_cpus < 2)
                /\ OnceIff(recs, REC_RAM_USO, Above(ramInfo[c].ram_usage_percent, 85))
                /\ OnceIff(recs, REC_RAM_INSUFICIENTE,
                           BCmp(ramInfo[c].total_ram, GiBytes(4)) = -1)
                /\ OnceIff(recs, REC_SWAP, Above(ramInfo[c].swap_usage_percent, 50))

\* every metric stands exactly on its threshold, one byte below it for the
\* capacity: only the capacity warning is in the list
C12_Witness ==
    /\ pc[1] = "return"
    /\ cpuInfo[1].cpu_usage = Num(80)
    /\ cpuInfo[1].number_cpus = 2
    /\ ramInfo[1].ram_usage_percent = Num(85)
    /\ ramInfo[1].swap_usage_percent = Num(50)
    /\ ramInfo[1].total_ram = BSub(GiBytes(4), U64(1))
    /\ CountOf(recommendations[1], REC_RAM_INSUFICIENTE) = 1
    /\ CountOf(recommendations[1], REC_SWAP) = 0

IsNearFull(disk) == Above(disk.usage_percent, 90)
IsLowOnSpace(disk) == BCmp(disk.available_space, GBytes(10)) = -1
IsSlowHdd(disk, overall) == HasLabel(disk, <<"H", "D", "D">>) /\ Below(overall, 7)

\* the entries of a list with a given text that name a given disk
EntriesOf(recs, fmt, name) ==
    {i \in 1..Len(recs) : recs[i].fmt = fmt /\ recs[i].disk = name}

\* C13: for each disk of the list the near-full warning (with the disk's
\* usage) is emitted iff its usage > 90, the HDD warning iff its label contains
\* "HDD" and the overall score is < 7.0, the low-free-space warning iff its
\* available bytes are fewer than 10 * 10^9; no disk warning names anything
\* else, and no HDD warning is in a list of the band from 7.0 on.
C13_DiskWarnings ==
    \A c \in Calls :
        pc[c] = "return" =>
            LET recs  == recommendations[c]
                disks == disksInfo[c]
                Named(name) == {i \in 1..Len(disks) : disks[i].name = name}
            IN  /\ \A i \in 1..Len(disks) :
                      LET name == disks[i].name
                      IN  /\ Cardinality(EntriesOf(recs, REC_DISCO_CHEIO, name)) =
                               Cardinality({j \in Named(name) : IsNearFull(disks[j])})
                          /\ Cardinality(EntriesOf(recs, REC_DISCO_HDD, name)) =
                               Cardinality({j \in Named(name) :
                                               IsSlowHdd(disks[j], overall_score[c])})
                          /\ Cardinality(EntriesOf(recs, REC_DISCO_LIVRE, name)) =
                               Cardinality({j \in Named(name) : IsLowOnSpace(disks[j])})
                          /\ \A k \in EntriesOf(recs, REC_DISCO_CHEIO, name) :
                                \E j \in Named(name) : recs[k].pct = disks[j].usage_percent
                /\ \A k \in 1..Len(recs) :
                      recs[k].fmt \in {REC_DISCO_CHEIO, REC_DISCO_HDD, REC_DISCO_LIVRE}
                          => \E i \in 1..Len(disks) : disks[i].name = recs[k].disk
                /\ CategoryOf(overall_score[c]) = "BomEstado"
                      => CountOf(recs, REC_DISCO_HDD) = 0

\* two HDDs in a list of the band from 7.0 on: one is full and short of space,
\* the other one byte short of 10 GB, and neither is called slow
C13_Witness ==
    /\ pc[1] = "return"
    /\ overall_score[1] = Num(7)
    /\ Len(disksInfo[1]) = 2
    /\ disksInfo[1][1].name = "C:"
    /\ disksInfo[1][2].name = "E:"
    /\ CountOf(recommendations[1], REC_DISCO_CHEIO) = 1
    /\ CountOf(recommendations[1], REC_DISCO_LIVRE) = 2
    /\ CountOf(recommendations[1], REC_DISCO_HDD) = 0

\* the place of a text in the order of emission: the general entries, the CPU
\* warnings, the RAM and swap warnings, the disk warnings, the closing action
PlaceOf(fmt) ==
    CASE fmt = REC_CPU_USO -> 10
      [] fmt = REC_CPU_NUCLEO -> 11
      [] fmt = REC_RAM_USO -> 20
      [] fmt = REC_RAM_INSUFICIENTE -> 21
      [] fmt = REC_SWAP -> 22
      [] fmt \in {REC_DISCO_CHEIO, REC_DISCO_HDD, REC_DISCO_LIVRE} -> 30
      [] fmt \in ClosingActions -> 40
      [] OTHER -> 0

IsDiskWarning(rec) == PlaceOf(rec.fmt) = 30

\* the texts and disk names of the warnings due for the first n disks, disk by
\* disk: near-full, HDD, low free space
RECURSIVE DueDiskWarnings(_, _, _)
DueDiskWarnings(disks, overall, n) ==
    IF n = 0 THEN <<>>
    ELSE DueDiskWarnings(disks, overall, n - 1)
         \o (IF IsNearFull(disks[n]) THEN <<<<REC_DISCO_CHEIO, disks[n].name>>>> ELSE <<>>)
         \o (IF IsSlowHdd(disks[n], overall) THEN <<<<REC_DISCO_HDD, disks[n].name>>>> ELSE <<>>)
         \o (IF IsLowOnSpace(disks[n]) THEN <<<<REC_DISCO_LIVRE, disks[n].name>>>> ELSE <<>>)

\* C14: the list keeps the order of emission: general entries, then the CPU
\* warnings, then the RAM and swap warnings, then the disk warnings disk by
\* disk in the order of the disk list (near-full, HDD, low free space), then
\* the closing action; no entry is an empty text.
C14_EmissionOrder ==
    \A c \in Calls :
        pc[c] = "return" =>
            LET recs == recommendations[c]
                dws  == SelectSeq(recs, IsDiskWarning)
            IN  /\ \A i \in 1..Len(recs) : \A j \in i..Len(recs) :
                      PlaceOf(recs[i].fmt) <= PlaceOf(recs[j].fmt)
                /\ [k \in 1..Len(dws) |-> <<dws[k].fmt, dws[k].disk>>] =
                      DueDiskWarnings(disksInfo[c], overall_score[c], Len(disksInfo[c]))
                /\ CountOf(recs, recs[Len(recs)].fmt) = 1
                /\ PlaceOf(recs[Len(recs)].fmt) = 40
                /\ PlaceOf(recs[1].fmt) = 0
                /\ \A i \in 1..Len(recs) : recs[i].fmt # ""

\* a list with warnings of every group and of two disks, the second disk's
\* warnings after the first's
C14_Witness ==
    /\ pc[1] = "return"
    /\ Len(disksInfo[1]) = 2
    /\ disksInfo[1][1].name = "E:"
    /\ disksInfo[1][2].name = "C:"
    /\ CountOf(recommendations[1], REC_CPU_NUCLEO) = 1
    /\ CountOf(recommendations[1], REC_SWAP) = 1
    /\ CountOf(recommendations[1], REC_DISCO_HDD) = 2
    /\ CountOf(recommendations[1], REC_DISCO_LIVRE) = 2

\* a byte count of zero
IsZeroBytes(n) == BCmp(n, BFromNat(0)) = 0

\* a host on which every denominator is zero: no CPU, no memory, no swap and
\* no disk of a capacity above zero
IsAllZero(h) ==
    /\ h.cpus = <<>>
    /\ IsZeroBytes(h.mem.total_memory)
    /\ IsZeroBytes(h.mem.total_swap)
    /\ \A i \in 1..Len(h.disks) : IsZeroBytes(h.disks[i].total_space)

\* C15: a denominator of zero is never divided by.  With a total RAM of zero
\* the RAM usage percent is 0.0, with a total swap of zero the swap usage
\* percent is 0.0, a disk of total space zero has usage percent 0.0, and with
\* no CPU the average utilisation is 0.0; a host on which all of them are zero
\* still gets a PerformanceScore with scores in [0, 10], a category and
\* recommendations.
C15_ZeroDenominators ==
    \A c \in Calls :
        /\ (pc[c] # "cpu_info" /\ host.cpus = <<>>) =>
               /\ cpuInfo[c].cpu_usage = Num(0)
               /\ cpuInfo[c].number_cpus = 0
        /\ (pc[c] \notin {"cpu_info", "ram_info"}) =>
               /\ IsZeroBytes(host.mem.total_memory) => ramInfo[c].ram_usage_percent = Num(0)
               /\ IsZeroBytes(host.mem.total_swap) => ramInfo[c].swap_usage_percent = Num(0)
        /\ (pc[c] \notin {"cpu_info", "ram_info", "disk_info"}) =>
               /\ Len(disksInfo[c]) = Len(host.disks)
               /\ \A i \in 1..Len(host.disks) :
                      IsZeroBytes(host.disks[i].total_space) =>
                          disksInfo[c][i].usage_percent = Num(0)
        /\ (pc[c] = "done" /\ IsAllZero(host)) =>
               /\ returned[c] # <<>>
               /\ InRange(returned[c][1].cpu_score)
               /\ InRange(returned[c][1].ram_score)
               /\ InRange(returned[c][1].disk_score)
               /\ InRange(returned[c][1].overall_score)
               /\ returned[c][1].category \in Categories
               /\ returned[c][1].recommendations # <<>>

\* a score was returned for a host without CPU, memory and swap whose two
\* disks have no capacity
C15_Witness ==
    /\ pc[1] = "done"
    /\ IsAllZero(host)
    /\ Len(host.disks) = 2
    /\ returned[1] # <<>>
    /\ returned[1][1].category = "Precaucao"

\* the invocations of calculate_performance_score started so far
EngineCalls == Cardinality({c \in Calls : pc[c] # "idle"})

\* the scores shown on the console by main
PrintedScores ==
    {console[i].data : i \in {j \in 1..Len(console) :
                                 console[j].line = "PONTUACAO DE DESEMPENHO DA MAQUINA"}}

\* the scores inside the complete reports written to a file or printed
ReportedScores ==
    {writes[i].contents.score[1] : i \in 1..Len(writes)}
    \cup {console[i].data.score[1] : i \in {j \in 1..Len(console) :
                                               console[j].line = "RELATORIO COMPLETO"}}

\* C16: in one run of the command-line program, whatever its first
\* argument, calculate_performance_score is invoked once, and the score of
\* a saved or printed complete report is the score shown on the console.
C16_EngineCalledOnce ==
    /\ EngineCalls <= 1
    /\ main_pc = "exit" => EngineCalls = 1
    /\ ReportedScores \subseteq PrintedScores

\* the number spelled by decimal digits
RECURSIVE FromDigits(_)
FromDigits(ds) ==
    IF ds = <<>> THEN 0
    ELSE 10 * FromDigits(SubSeq(ds, 1, Len(ds) - 1)) + ds[Len(ds)]

SaveAsked == Len(args) > 1 /\ args[2] \in {"--save", "-s"}

\* the entries of the console on a stream with a given line
Said(stream, line) ==
    {i \in 1..Len(console) : console[i].stream = stream /\ console[i].line = line}

\* C17: with --save or -s as first argument, main calls std::fs::write once,
\* for the complete report, under the name diagnostico_<seconds>.txt, after
\* the score was shown; after a successful write the name is reported, after
\* a failed one an error is printed to stderr, the write is not repeated, and
\* in both cases main is at the statement after the save block and goes on
\* to its closing line and its exit.
C17_SaveWritesOnce ==
    /\ Len(writes) <= 1
    /\ ~SaveAsked => writes = <<>>
    /\ writes # <<>> =>
          LET w == writes[1]
              t == FromDigits(SubSeq(w.path, 2, Len(w.path) - 1))
          IN  /\ w.path[1] = "diagnostico_"
              /\ w.path[Len(w.path)] = ".txt"
              /\ Len(w.path) >= 3
              /\ t \in Times /\ t <= now
              /\ PrintedScores # {}
              /\ w.contents.score # <<>>
              /\ main_pc \in {"help", "end", "full", "exit"}
              /\ IF w.result = "Ok"
                THEN /\ \E i \in Said("stdout", "Relatorio salvo") :
                           console[i].data = w.path
                     /\ Said("stderr", "Erro ao salvar") = {}
                ELSE /\ Cardinality(Said("stderr", "Erro ao salvar")) = 1
                     /\ Said("stdout", "Relatorio salvo") = {}
    /\ (main_pc = "exit" /\ SaveAsked) =>
          /\ Len(writes) = 1
          /\ console[Len(console)].line = "===="

\* main.rs exited after a failed write under the name diagnostico_10.txt
C17_Witness ==
    /\ main_pc = "exit"
    /\ program = MAIN
    /\ args = <<"hardware-diagnostic", "-s">>
    /\ Len(writes) = 1
    /\ writes[1].result = "Err"
    /\ writes[1].path = <<"diagnostico_", 1, 0, ".txt">>
    /\ console[Len(console) - 1].stream = "stderr"

\* invocation c is past the statement that assigns the score named
Has(c, score) ==
    CASE score = "cpu_score" -> pc[c] \notin {"idle", "cpu_info", "ram_info", "disk_info", "cpu_score"}
      [] score = "ram_score" -> pc[c] \notin {"idle", "cpu_info", "ram_info", "disk_info", "cpu_score",
                                               "ram_score"}
      [] score = "disk_score" -> pc[c] \notin {"idle", "cpu_info", "ram_info", "disk_info",
                                                "cpu_score", "ram_score", "disk_score"}
      [] score = "overall_score" -> pc[c] \notin {"idle", "cpu_info", "ram_info", "disk_info",
                                                   "cpu_score", "ram_score", "disk_score",
                                                   "overall_score"}

\* the weights 0.1 to 0.5 and the least scores 1.8, 1.4, 2.5 and 1.89
Tenths == [a \in 1..5 |-> F64Lit(a, 10)]
Least == [cpu |-> F64Lit(18, 10), ram |-> F64Lit(14, 10), disk |-> F64Lit(25, 10),
          overall |-> F64Lit(189, 100), top |-> F64FromNat(10)]

\* lo <= x <= 10
Within(x, lo) == F64Cmp(x, lo) # -1 /\ F64Cmp(x, Least.top) # 1

\* a/10 * x + b/10 * y + c/10 * z for whole x, y and z, before any clamp
Raw(a, x, b, y, c, z) ==
    F64Add(F64Add(F64Mul(Tenths[a], F64FromNat(x)), F64Mul(Tenths[b], F64FromNat(y))),
           F64Mul(Tenths[c], F64FromNat(z)))

RawCpu(ci) == Raw(4, CpuC(ci.number_cpus), 4, CpuU(ci.cpu_usage), 2, CpuF(ci.frequency))
RawRam(ri) ==
    Raw(5, RamU(ri.ram_usage_percent), 3, RamS(ri.total_swap, ri.swap_usage_percent),
        2, RamK(ri.total_ram))
RawDisk(disk) == Raw(5, DiskU(disk), 3, DiskT(disk), 2, DiskF(disk))

\* C18: no clamp is ever taken: the weighted sum of the CPU factors, of the
\* RAM factors and of each disk's factors is within [0, 10] as it is and is
\* the score; every cpu_score is in [1.8, 10], every ram_score in [1.4, 10],
\* every disk_score in [2.5, 10] and every overall score in [1.89, 10], so
\* no score is 0.
C18_ClampsNeverTaken ==
    \A c \in Calls :
        /\ Has(c, "cpu_score") =>
              /\ cpu_score[c] = RawCpu(cpuInfo[c])
              /\ Within(cpu_score[c], Least.cpu)
        /\ Has(c, "ram_score") =>
              /\ ram_score[c] = RawRam(ramInfo[c])
              /\ Within(ram_score[c], Least.ram)
        /\ Has(c, "disk_score") =>
              /\ \A i \in 1..Len(disksInfo[c]) : Within(RawDisk(disksInfo[c][i]), Least.disk)
              /\ Within(disk_score[c], Least.disk)
        /\ Has(c, "overall_score") =>
              /\ Within(overall_score[c], Least.overall)
              /\ overall_score[c] # Num(0)

\* the worst machine of all: every factor at its lowest, and every score
\* below 2 except the disk score of 2.5
C18_Witness ==
    /\ Has(1, "overall_score")
    /\ cpuInfo[1] = Worst.cpu
    /\ ramInfo[1] = Worst.ram
    /\ disksInfo[1] = Worst.disks
    /\ Below(cpu_score[1], 2)
    /\ Below(ram_score[1], 2)
    /\ disk_score[1] = F64Lit(25, 10)
    /\ Below(overall_score[1], 2)

\* b is a at least as good in every metric of the CPU: no fewer cores, no
\* lower frequency, no higher utilization
CpuNoWorse(a, b) ==
    /\ b.number_cpus >= a.number_cpus
    /\ b.frequency >= a.frequency
    /\ F64Cmp(b.cpu_usage, a.cpu_usage) # 1

\* no less total RAM, no higher RAM usage, the same total swap and no higher
\* swap usage
RamNoWorse(a, b) ==
    /\ BCmp(b.total_ram, a.total_ram) # -1
    /\ F64Cmp(b.ram_usage_percent, a.ram_usage_percent) # 1
    /\ b.total_swap = a.total_swap
    /\ F64Cmp(b.swap_usage_percent, a.swap_usage_percent) # 1

\* the same disks in the same order, each with no less available space and
\* no higher usage
DisksNoWorse(a, b) ==
    /\ Len(a) = Len(b)
    /\ \A i \in 1..Len(a) :
          /\ b[i].disk_type = a[i].disk_type
          /\ BCmp(b[i].available_space, a[i].available_space) # -1
          /\ F64Cmp(b[i].usage_percent, a[i].usage_percent) # 1

\* C19: each score is monotone in the metrics it rates.  Of two inputs that
\* differ in one metric of one component, the one with the lower CPU
\* utilization, RAM usage, swap usage or disk usage, or with more cores, a
\* higher frequency, more total RAM or more available disk space has no
\* lower component score and no lower overall score.
C19_Monotone ==
    \A a, b \in Calls :
        /\ (Has(a, "cpu_score") /\ Has(b, "cpu_score") /\ CpuNoWorse(cpuInfo[a], cpuInfo[b]))
              => F64Cmp(cpu_score[b], cpu_score[a]) # -1
        /\ (Has(a, "ram_score") /\ Has(b, "ram_score") /\ RamNoWorse(ramInfo[a], ramInfo[b]))
              => F64Cmp(ram_score[b], ram_score[a]) # -1
        /\ (Has(a, "disk_score") /\ Has(b, "disk_score")
                /\ DisksNoWorse(disksInfo[a], disksInfo[b]))
              => F64Cmp(disk_score[b], disk_score[a]) # -1
        /\ (Has(a, "overall_score") /\ Has(b, "overall_score")
                /\ CpuNoWorse(cpuInfo[a], cpuInfo[b])
                /\ RamNoWorse(ramInfo[a], ramInfo[b])
                /\ DisksNoWorse(disksInfo[a], disksInfo[b]))
              => F64Cmp(overall_score[b], overall_score[a]) # -1

\* of two lists of two disks, the one whose second disk has more free space
\* scores strictly higher, on the disks and overall
C19_Witness ==
    /\ Has(1, "overall_score") /\ Has(2, "overall_score")
    /\ Len(disksInfo[1]) = 2
    /\ DisksNoWorse(disksInfo[1], disksInfo[2])
    /\ disksInfo[1][2].available_space = GBytes(15)
    /\ disksInfo[2][2].available_space = GBytes(200)
    /\ F64Cmp(disk_score[2], disk_score[1]) = 1
    /\ F64Cmp(overall_score[2], overall_score[1]) = 1

\* a disk without its capacity
Rated(disk) == <<disk.name, disk.usage_percent, disk.disk_type, disk.available_space>>

\* the lists hold the same disks, capacities aside, each as many times
SameDisks(l, m) ==
    /\ Len(l) = Len(m)
    /\ \A i \in 1..Len(l) :
          Cardinality({j \in 1..Len(l) : Rated(l[j]) = Rated(l[i])})
              = Cardinality({j \in 1..Len(m) : Rated(m[j]) = Rated(l[i])})

\* the lists hold the same disks in the same order, capacities aside
SameOrder(l, m) == Len(l) = Len(m) /\ \A i \in 1..Len(l) : Rated(l[i]) = Rated(m[i])

\* x and y differ by at most n * 2^-48
Near(x, y, n) ==
    LET eps == F64Mul(F64FromNat(n), [m |-> <<1>>, e |-> 0 - 48])
    IN  F64Cmp(x, F64Add(y, eps)) # 1 /\ F64Cmp(y, F64Add(x, eps)) # 1

\* C20 as stated: calculate_disk_score gives any two lists of the same disks,
\* in whatever order and with whatever capacities, the same disk_score.
C20_SameDisksSameScore ==
    \A a, b \in Calls :
        (Has(a, "disk_score") /\ Has(b, "disk_score")
            /\ SameDisks(disksInfo[a], disksInfo[b]))
          => disk_score[a] = disk_score[b]

\* C20, amended: the total capacity of a disk has no influence on
\* disk_score, and the order of the list only through the rounding of the
\* binary64 sum: two lists of the same n disks score the same when they are
\* in the same order or n is at most 2, and within n * 2^-48 of each other
\* in any order.
C20_SameDisksNearScore ==
    \A a, b \in Calls :
        (Has(a, "disk_score") /\ Has(b, "disk_score")
            /\ SameDisks(disksInfo[a], disksInfo[b]))
          => /\ Near(disk_score[a], disk_score[b], Len(disksInfo[a]))
             /\ (Len(disksInfo[a]) <= 2 \/ SameOrder(disksInfo[a], disksInfo[b]))
                   => disk_score[a] = disk_score[b]

\* three disks in two orders and with other capacities whose scores differ
C20_Witness ==
    /\ Has(1, "disk_score") /\ Has(2, "disk_score")
    /\ Len(disksInfo[1]) = 3
    /\ SameDisks(disksInfo[1], disksInfo[2])
    /\ ~SameOrder(disksInfo[1], disksInfo[2])
    /\ disksInfo[1][1].total_space # disksInfo[2][1].total_space
    /\ disk_score[1] # disk_score[2]


\* the score of a disk whose free-space factor is 1.0
WorstFreeSpace(disk) ==
    Weighted(5, Num(DiskU(disk)), 3, Num(DiskT(disk)), 2, Num(1))

\* the score of a RAM whose capacity factor is 3.0
WorstCapacity(ri) ==
    Weighted(5, Num(RamU(ri.ram_usage_percent)),
             3, Num(RamS(ri.total_swap, ri.swap_usage_percent)), 2, Num(3))

\* C21: the warnings agree with the worst bands of the scores. Whenever the
\* low-free-space warning is emitted for a disk, the free-space factor of that
\* disk in calculate_disk_score is 1.0 (its score is 0.5*U + 0.3*T + 0.2*1.0),
\* and the insufficient-capacity RAM warning is emitted, once, exactly when
\* the capacity factor in calculate_ram_score is 3.0 (the RAM score is
\* 0.5*U + 0.3*S + 0.2*3.0).
C21_WarningsMatchWorstBands ==
    \A c \in Calls :
        pc[c] = "return" =>
            LET recs  == recommendations[c]
                disks == disksInfo[c]
            IN  /\ \A i \in 1..Len(disks) :
                      EntriesOf(recs, REC_DISCO_LIVRE, disks[i].name) # {}
                          => /\ clamped_score(disks[i]) = WorstFreeSpace(disks[i])
                             /\ Len(disks) = 1 =>
                                   disk_score[c] = WorstFreeSpace(disks[i])
                /\ CountOf(recs, REC_RAM_INSUFICIENTE) =
                      IF ram_score[c] = WorstCapacity(ramInfo[c]) THEN 1 ELSE 0

\* 4 GiB less one byte is warned of and has the capacity factor 3.0; of two
\* disks with the free-space factor 1.0 the one a byte short of 10 GB is warned
\* of and the one of exactly 10 GB is not
C21_Witness ==
    /\ pc[1] = "return"
    /\ ramInfo[1].total_ram = BSub(MiB(4096), U64(1))
    /\ CountOf(recommendations[1], REC_RAM_INSUFICIENTE) = 1
    /\ ram_score[1] = WorstCapacity(ramInfo[1])
    /\ Len(disksInfo[1]) = 2
    /\ disksInfo[1][1].available_space = BSub(GBytes(10), U64(1))
    /\ disksInfo[1][2].available_space = GBytes(10)
    /\ EntriesOf(recommendations[1], REC_DISCO_LIVRE, disksInfo[1][1].name) # {}
    /\ EntriesOf(recommendations[1], REC_DISCO_LIVRE, disksInfo[1][2].name) = {}
    /\ clamped_score(disksInfo[1][1]) = WorstFreeSpace(disksInfo[1][1])
    /\ clamped_score(disksInfo[1][2]) = WorstFreeSpace(disksInfo[1][2])

====
